---------------------------- MODULE Spec2Model ----------------------------
(***************************************************************************)
(* Stock Alarm: the alert batch (scripts/check_alert.py), its threshold    *)
(* evaluator and the commentary generator's retry loop                     *)
(* (app/services/llm.py).                                                   *)
(*                                                                         *)
(* Prices and percentages are exact numbers here: a price is a natural     *)
(* number, a threshold an integer percentage, and a change rate the exact  *)
(* fraction (current - base) * 100 / base, kept as numerator and           *)
(* denominator.  The rounding of Python's binary floats is not modelled.   *)
(* A Python None is the empty tuple Null, a value v that may be None is    *)
(* the one-element tuple Some(v); a None among strings is "None".          *)
(***************************************************************************)
EXTENDS Integers, Sequences, FiniteSets, TLC

Null == <<>>
Some(v) == <<v>>

(* ------------------------------ bounds -------------------------------- *)

\* Number of cron invocations of check_alerts that are explored.
MaxRuns == 2

\* Number of rows of table alert_logs up to which the runs are explored.
MaxLogs == 3

\* Number of invocations of the migrate script that are explored.
MaxMigrations == 2

\* Length of the closePrice strings of the quote API that are explored.
MaxPriceLen == 3

\* The alert rows of the store.
AlertIds == {1, 2}

\* The close prices the quote API may report, and the base price of a new row.
Prices == {0, 99, 110, 121}
InitBasePrices == {110}

\* The threshold pairs (upper, lower) a row may carry.
ThresholdChoices ==
    { <<Some(10), Some(-10)>>, <<Some(10), Null>>, <<Null, Some(-10)>> }

(* ------------------------------ state --------------------------------- *)

VARIABLES
    alerts,          \* table alerts: id -> committed row
    alert_logs,      \* table alert_logs: committed rows, in insertion order
    pc,              \* check_alerts: "idle", "loop", "done", "aborted", "crashed"
    run,             \* number of check_alerts invocations so far (the clock)
    active_alerts,   \* check_alerts: the list loaded by the status query
    loaded,          \* the rows as they were when active_alerts was loaded
    idx,             \* check_alerts: position of the for loop in active_alerts
    result,          \* check_alerts: the summary dict
    calls,           \* per alert of this run: what its process_alert call did
    outbox,          \* the send_alert_email calls of the latest process_alert
                     \* (recipient and stock of each)
    eval_in,         \* is_threshold_reached: the arguments of one call
    eval_out,        \* is_threshold_reached: the value it returned
    llm,             \* generate_alert_comment: the state of one call
    mail,            \* send_alert_email: the state of one call
    quote,           \* get_stock_price: the state of one call
    web,             \* the settings routes: the latest request and its response
    proc,            \* process_alert: the arguments and the outcome of one call
    migration        \* migrate_threshold_lower.py: the runs of the script

vars == << alerts, alert_logs, pc, run, active_alerts, loaded, idx, result,
           calls, outbox, eval_in, eval_out, llm, mail, quote, web, proc,
           migration >>

(* ----------------------- is_threshold_reached ------------------------- *)

\* change_rate = (current_price - base_price) / base_price * 100, base > 0
ChangeRate(base_price, current_price) ==
    [num |-> (current_price - base_price) * 100, den |-> base_price]

\* change_rate >= threshold and change_rate <= threshold (den > 0)
RateGE(rate, threshold) == rate.num >= threshold * rate.den
RateLE(rate, threshold) == rate.num <= threshold * rate.den

\* Faulty variant: strict comparisons, so that equality does not count.
is_threshold_reached_strict(alert, current_price) ==
    LET change_rate == ChangeRate(alert.base_price, current_price) IN
    IF alert.threshold_upper # Null
       /\ change_rate.num > alert.threshold_upper[1] * change_rate.den
    THEN <<TRUE, "upper">>
    ELSE IF alert.threshold_lower # Null
            /\ change_rate.num < alert.threshold_lower[1] * change_rate.den
    THEN <<TRUE, "lower">>
    ELSE <<FALSE, "None">>

\* is_threshold_reached(alert, current_price) -> (reached, threshold_type)
is_threshold_reached(alert, current_price) ==
    LET change_rate == ChangeRate(alert.base_price, current_price) IN
    IF alert.threshold_upper # Null
       /\ RateGE(change_rate, alert.threshold_upper[1])
    THEN <<TRUE, "upper">>
    ELSE IF alert.threshold_lower # Null
            /\ RateLE(change_rate, alert.threshold_lower[1])
    THEN <<TRUE, "lower">>
    ELSE <<FALSE, "None">>

(* --------------------------- process_alert ---------------------------- *)

\* What get_stock_price may do: return a price, return None, or raise (an
\* exception class its except clauses do not name).
PriceOutcomes ==
    { [kind |-> "price", value |-> p] : p \in Prices }
    \cup { [kind |-> "None", value |-> 0], [kind |-> "raise", value |-> 0] }

\* get_market_summary: a summary or None.
MarketOutcomes == {"summary", "None"}

\* generate_alert_comment: the LLM's text, the fallback sentence or None.
CommentOutcomes == {"text", "fallback", "None"}

ZeroedMarketSummary == "zeroed"

\* Faulty variant: the row is built after the rebase of step 8.
NewAlertLogRebased(alert, current_price, change_rate, threshold_type, email_sent, now) ==
    [ alert_id       |-> alert.id,
      user_id        |-> alert.user_id,
      stock_code     |-> alert.stock_code,
      base_price     |-> current_price,
      current_price  |-> current_price,
      change_rate    |-> change_rate,
      threshold_type |-> threshold_type,
      email_sent     |-> email_sent,
      sent_at        |-> now ]

\* Lines 169-181, step 7: the AlertLog row; sent_at is the time of the run.
NewAlertLog(alert, current_price, change_rate, threshold_type, email_sent, now) ==
    [ alert_id       |-> alert.id,
      user_id        |-> alert.user_id,
      stock_code     |-> alert.stock_code,
      base_price     |-> alert.base_price,
      current_price  |-> current_price,
      change_rate    |-> change_rate,
      threshold_type |-> threshold_type,
      email_sent     |-> email_sent,
      sent_at        |-> now ]

\* Faulty variant: the rebase is skipped when the email was not sent.
RebasedPriceOnlyIfSent(alert, current_price, email_sent) ==
    IF email_sent THEN current_price ELSE alert.base_price

\* Line 184, step 8: the base price the alert row gets.
RebasedPrice(alert, current_price, email_sent) == current_price

\* The outcome of one process_alert call: the dict it returns (or the
\* exception it raises), the rows it hands to the session, and the calls it
\* makes to its collaborators.
Outcome(id, raised, status, email_sent, error, base_price, logs, commits, market_calls, comment_calls, mails) ==
    [ id            |-> id,
      raised        |-> raised,
      status        |-> status,
      email_sent    |-> email_sent,
      error         |-> error,
      base_price    |-> base_price,
      logs          |-> logs,
      commits       |-> commits,
      market_calls  |-> market_calls,
      comment_calls |-> comment_calls,
      mails         |-> mails ]

\* Faulty variant: the skip is not reported as an error.
SkippedSilently(alert) ==
    Outcome(alert.id, "None", "skipped", Null, "None", alert.base_price,
            <<>>, 0, 0, 0, <<>>)

\* Lines 76-85: the price is unavailable ("price fetch failed" stands for the
\* message of line 84).
Skipped(alert) ==
    Outcome(alert.id, "None", "skipped", Null, "price fetch failed", alert.base_price,
            <<>>, 0, 0, 0, <<>>)

\* Faulty variant: the alert is rebased on every evaluation.
NotTriggeredRebases(alert, current_price) ==
    Outcome(alert.id, "None", "not_triggered", Null, "None", current_price,
            <<>>, 1, 0, 0, <<>>)

\* Lines 97-103: no threshold is reached.
NotTriggered(alert, current_price) ==
    Outcome(alert.id, "None", "not_triggered", Null, "None", alert.base_price,
            <<>>, 0, 0, 0, <<>>)

\* Faulty variant: a commentary of None is passed on to the email as it is.
TriggeredWithoutFallback(alert, current_price, threshold_type, market, comment, sent, now) ==
    LET change_rate == ChangeRate(alert.base_price, current_price)
        threshold_value ==
            IF threshold_type = "upper" THEN alert.threshold_upper
                                        ELSE alert.threshold_lower
        market_summary == IF market = "None" THEN ZeroedMarketSummary ELSE market
        email_call == [ email           |-> alert.user_id,
                        stock_code      |-> alert.stock_code,
                        base_price      |-> alert.base_price,
                        current_price   |-> current_price,
                        change_rate     |-> change_rate,
                        threshold_type  |-> threshold_type,
                        threshold_value |-> threshold_value,
                        market_summary  |-> market_summary,
                        llm_comment     |-> comment ]
    IN  Outcome(alert.id, "None", "triggered", Some(sent), "None",
                RebasedPrice(alert, current_price, sent),
                << NewAlertLog(alert, current_price, change_rate,
                               threshold_type, sent, now) >>,
                1, 1, 1, << email_call >>)

\* Lines 105-190: a threshold is reached.  The market summary is fetched
\* (zeroed defaults when None), the commentary generated (the fallback
\* sentence when None), one email sent, the AlertLog row added and the alert
\* rebased, whatever the send returned; then the session is committed.
Triggered(alert, current_price, threshold_type, market, comment, sent, now) ==
    LET change_rate == ChangeRate(alert.base_price, current_price)
        threshold_value ==
            IF threshold_type = "upper" THEN alert.threshold_upper
                                        ELSE alert.threshold_lower
        market_summary == IF market = "None" THEN ZeroedMarketSummary ELSE market
        llm_comment == IF comment = "None" THEN "fallback" ELSE comment
        email_call == [ email           |-> alert.user_id,
                        stock_code      |-> alert.stock_code,
                        base_price      |-> alert.base_price,
                        current_price   |-> current_price,
                        change_rate     |-> change_rate,
                        threshold_type  |-> threshold_type,
                        threshold_value |-> threshold_value,
                        market_summary  |-> market_summary,
                        llm_comment     |-> llm_comment ]
    IN  Outcome(alert.id, "None", "triggered", Some(sent), "None",
                RebasedPrice(alert, current_price, sent),
                << NewAlertLog(alert, current_price, change_rate,
                               threshold_type, sent, now) >>,
                1, 1, 1, << email_call >>)

\* An exception leaves process_alert before anything was handed to the
\* session: get_stock_price raising one of the classes it does not catch, or
\* the division of line 92 by a base price of 0.
Raised(alert, exception) ==
    Outcome(alert.id, exception, "None", Null, "None", alert.base_price,
            <<>>, 0, 0, 0, <<>>)

\* Faulty variant: the division by a base price of 0 does not raise.
process_alert_dividing_by_zero(alert, price, market, comment, sent, now) ==
    IF price.kind = "raise" THEN Raised(alert, "TypeError")
    ELSE IF price.kind = "None" THEN Skipped(alert)
    ELSE LET reached == is_threshold_reached(alert, price.value) IN
         IF ~reached[1]
         THEN NotTriggered(alert, price.value)
         ELSE Triggered(alert, price.value, reached[2], market, comment,
                        sent, now)

\* process_alert(alert, app)
process_alert(alert, price, market, comment, sent, now) ==
    IF price.kind = "raise" THEN Raised(alert, "TypeError")
    ELSE IF price.kind = "None" THEN Skipped(alert)
    ELSE IF alert.base_price = 0 THEN Raised(alert, "ZeroDivisionError")
    ELSE LET reached == is_threshold_reached(alert, price.value) IN
         IF ~reached[1]
         THEN NotTriggered(alert, price.value)
         ELSE Triggered(alert, price.value, reached[2], market, comment,
                        sent, now)

(* ---------------------------- check_alerts ---------------------------- *)

Statuses == {"active", "inactive"}

StockCode(a) == IF a = 1 THEN "005930" ELSE "000660"

\* The ids of s in ascending order (the order the status query returns rows).
RECURSIVE SortedSeq(_)
SortedSeq(s) ==
    IF s = {} THEN <<>>
    ELSE LET m == CHOOSE x \in s : \A y \in s : x <= y
         IN  <<m>> \o SortedSeq(s \ {m})

\* Faulty variant: the status filter is missing.
ActiveAlertsIncludingInactive(rows) == SortedSeq(DOMAIN rows)

\* Line 212: Alert.query.filter_by(status="active").all()
ActiveAlerts(rows) ==
    SortedSeq({a \in DOMAIN rows : rows[a].status = "active"})

NewResult(total) ==
    [ total |-> total, checked |-> 0, triggered |-> 0, email_sent |-> 0,
      email_failed |-> 0, errors |-> <<>> ]

ErrorEntry(alert, error) ==
    [ alert_id |-> alert.id, stock_code |-> alert.stock_code, error |-> error ]

\* Faulty variant: a skipped alert is not counted as checked.
CountResultSkipUnchecked(res, alert, out) ==
    [ res EXCEPT
        !.checked = IF out.status = "skipped" THEN @ ELSE @ + 1,
        !.triggered = IF out.status = "triggered" THEN @ + 1 ELSE @,
        !.email_sent =
            IF out.status = "triggered" /\ out.email_sent = Some(TRUE)
            THEN @ + 1 ELSE @,
        !.email_failed =
            IF out.status = "triggered" /\ out.email_sent # Some(TRUE)
            THEN @ + 1 ELSE @,
        !.errors =
            IF out.error # "None" THEN Append(@, ErrorEntry(alert, out.error))
            ELSE @ ]

\* Lines 233-249: the summary after process_alert returned.
CountResult(res, alert, out) ==
    [ res EXCEPT
        !.checked = @ + 1,
        !.triggered = IF out.status = "triggered" THEN @ + 1 ELSE @,
        !.email_sent =
            IF out.status = "triggered" /\ out.email_sent = Some(TRUE)
            THEN @ + 1 ELSE @,
        !.email_failed =
            IF out.status = "triggered" /\ out.email_sent # Some(TRUE)
            THEN @ + 1 ELSE @,
        !.errors =
            IF out.error # "None" THEN Append(@, ErrorEntry(alert, out.error))
            ELSE @ ]

\* Faulty variant: an alert whose processing raised is counted as checked.
CountErrorChecked(res, alert, exception) ==
    [ res EXCEPT !.checked = @ + 1,
                 !.errors = Append(@, ErrorEntry(alert, exception)) ]

\* Lines 251-261: the summary after process_alert raised.
CountError(res, alert, exception) ==
    [ res EXCEPT !.errors = Append(@, ErrorEntry(alert, exception)) ]

\* Faulty variant: a triggered alert leaves the active state.
CommittedAlertDeactivated(alert, out) ==
    [alert EXCEPT !.base_price = out.base_price,
                  !.status = IF out.status = "triggered" THEN "triggered" ELSE @]

\* Lines 183-186: the alert row after the commit of a process_alert call
\* (the status stays as it is).
CommittedAlert(alert, out) == [alert EXCEPT !.base_price = out.base_price]

\* Where the process may die inside a process_alert call that triggers: after
\* the email was handed to the mail server and before the commit, or after
\* the commit and before the call returns ("None": it does not die).
CrashPoints == {"None", "sent", "committed"}

\* Faulty variant: the session commits every statement on its own, so that
\* the AlertLog insert of line 181 is durable before the commit of line 186.
StoreAfterAutocommit(rows, logs, out, commit_ok, crash) ==
    IF out.raised # "None" \/ out.commits = 0
    THEN [ alerts |-> rows, alert_logs |-> logs ]
    ELSE IF ~commit_ok \/ crash = "sent"
    THEN [ alerts |-> rows, alert_logs |-> logs \o out.logs ]
    ELSE [ alerts     |-> [rows EXCEPT ![out.id] = CommittedAlert(@, out)],
           alert_logs |-> logs \o out.logs ]

\* Lines 181-186: the committed store after a process_alert call.  The new
\* AlertLog row and the new base price are written by the one commit of line
\* 186, both or neither: neither when the call ended before the commit, when
\* the commit failed, or when the process died before the commit.
StoreAfter(rows, logs, out, commit_ok, crash) ==
    IF out.raised # "None" \/ out.commits = 0 \/ ~commit_ok \/ crash = "sent"
    THEN [ alerts |-> rows, alert_logs |-> logs ]
    ELSE [ alerts     |-> [rows EXCEPT ![out.id] = CommittedAlert(@, out)],
           alert_logs |-> logs \o out.logs ]

\* What is remembered of one process_alert call of this run: the price it
\* got, what it returned or how it ended otherwise ("OperationalError": the
\* commit raised; "killed": the process died), and how often it called its
\* collaborators.
Call(price, out, failure) ==
    Some([ price         |-> price,
           raised        |-> IF failure # "None" THEN failure ELSE out.raised,
           status        |-> IF failure # "None" THEN "None" ELSE out.status,
           email_sent    |-> out.email_sent,
           error         |-> out.error,
           market_calls  |-> out.market_calls,
           comment_calls |-> out.comment_calls,
           mail_calls    |-> Len(out.mails) ])

Init ==
    /\ alerts \in
         { f \in [ AlertIds ->
                   [ id : AlertIds, user_id : {1}, stock_code : {"005930", "000660"},
                     base_price : InitBasePrices,
                     threshold_upper : {Null, Some(10)},
                     threshold_lower : {Null, Some(-10)},
                     status : Statuses, triggered_at : {Null} ] ] :
             \A a \in AlertIds :
                /\ f[a].id = a
                /\ f[a].stock_code = StockCode(a)
                /\ <<f[a].threshold_upper, f[a].threshold_lower>>
                       \in ThresholdChoices }
    /\ alert_logs = <<>>
    /\ pc = "idle"
    /\ run = 0
    /\ active_alerts = <<>>
    /\ loaded = alerts
    /\ idx = 1
    /\ result = NewResult(0)
    /\ calls = [a \in AlertIds |-> Null]
    /\ outbox = <<>>
    /\ eval_in = Null
    /\ eval_out = Null
    /\ llm = Null
    /\ mail = Null
    /\ quote = Null
    /\ web = Null
    /\ proc = Null
    /\ migration = Null

\* Lines 146-158: what the batch's outbox keeps of a send_alert_email call.
Sent(mails) ==
    [ i \in 1..Len(mails) |->
        [ email |-> mails[i].email, stock_code |-> mails[i].stock_code ] ]

\* The outcomes of the collaborators that process_alert did not call are not
\* inputs of the call: they are pinned to one value.
Asked(out, market, comment, sent, commit_ok, usable, crash) ==
    /\ out.market_calls = 0 => market = "summary"
    /\ out.comment_calls = 0 => comment = "text"
    /\ out.mails = <<>> => sent /\ crash = "None"
    /\ out.commits = 0 => commit_ok
    /\ commit_ok => usable
    /\ crash = "sent" => commit_ok
    /\ crash = "committed" => commit_ok

\* check_alerts, lines 208-227: load the active alerts and start the loop
\* (or return at once when there is none).
LoadAlerts ==
    /\ pc \in {"idle", "done", "aborted", "crashed"}
    /\ run < MaxRuns
    /\ run' = run + 1
    /\ active_alerts' = ActiveAlerts(alerts)
    /\ loaded' = alerts
    /\ result' = NewResult(Len(active_alerts'))
    /\ idx' = 1
    /\ calls' = [a \in AlertIds |-> Null]
    /\ outbox' = <<>>
    /\ pc' = IF active_alerts' = <<>> THEN "done" ELSE "loop"
    /\ UNCHANGED << alerts, alert_logs >>

\* One iteration of the for loop, lines 230-261: process_alert on the next
\* alert, then the summary update or the except clause.
\* db.session.commit() (line 186) may fail; the new AlertLog row and the new
\* base price are then rolled back.  When it fails in the flush (say, the
\* database is locked by the web application), the session refuses further
\* use until rollback() is called, which the except clause does not do: the
\* clause's own read of the (expired) alert raises, and the exception leaves
\* check_alerts.  When it fails in the COMMIT itself, the session stays usable
\* and the except clause records the error.
ProcessNext ==
    /\ pc = "loop"
    /\ idx <= Len(active_alerts)
    /\ \E price \in PriceOutcomes, market \in MarketOutcomes,
          comment \in CommentOutcomes, sent \in BOOLEAN,
          commit_ok \in BOOLEAN, usable \in BOOLEAN, crash \in CrashPoints :
         LET a == active_alerts[idx]
             alert == alerts[a]
             out == process_alert(alert, price, market, comment, sent, run)
             store == StoreAfter(alerts, alert_logs, out, commit_ok, crash)
         IN  /\ Asked(out, market, comment, sent, commit_ok, usable, crash)
             /\ Len(store.alert_logs) <= MaxLogs
             /\ outbox' = Sent(out.mails)
             /\ alerts' = store.alerts
             /\ alert_logs' = store.alert_logs
             /\ IF crash # "None"
                THEN /\ calls' = [calls EXCEPT ![a] = Call(price, out, "killed")]
                     /\ pc' = "crashed"
                     /\ UNCHANGED << result, idx >>
                ELSE IF out.raised # "None"
                THEN /\ result' = CountError(result, alert, out.raised)
                     /\ calls' = [calls EXCEPT ![a] = Call(price, out, "None")]
                     /\ idx' = idx + 1
                     /\ UNCHANGED pc
                ELSE IF out.commits > 0 /\ ~commit_ok /\ ~usable
                THEN /\ calls' = [calls EXCEPT ![a] =
                                     Call(price, out, "OperationalError")]
                     /\ pc' = "aborted"
                     /\ UNCHANGED << result, idx >>
                ELSE IF out.commits > 0 /\ ~commit_ok
                THEN /\ result' = CountError(result, alert, "OperationalError")
                     /\ calls' = [calls EXCEPT ![a] =
                                     Call(price, out, "OperationalError")]
                     /\ idx' = idx + 1
                     /\ UNCHANGED pc
                ELSE /\ result' = CountResult(result, alert, out)
                     /\ calls' = [calls EXCEPT ![a] = Call(price, out, "None")]
                     /\ idx' = idx + 1
                     /\ UNCHANGED pc
    /\ UNCHANGED << run, active_alerts, loaded >>

\* The process dies between two iterations of the loop (or in an iteration
\* before it has sent or stored anything): the run ends without a summary.
Crash ==
    /\ pc = "loop"
    /\ pc' = "crashed"
    /\ UNCHANGED << alerts, alert_logs, run, active_alerts, loaded, idx,
                    result, calls, outbox >>

\* Lines 263-269: the loop is over, check_alerts returns the summary.
ReturnResult ==
    /\ pc = "loop"
    /\ idx > Len(active_alerts)
    /\ pc' = "done"
    /\ UNCHANGED << alerts, alert_logs, run, active_alerts, loaded, idx,
                    result, calls, outbox >>

Next ==
    \/ LoadAlerts /\ UNCHANGED << eval_in, eval_out, llm, mail, quote, web, proc, migration >>
    \/ ProcessNext /\ UNCHANGED << eval_in, eval_out, llm, mail, quote, web, proc, migration >>
    \/ ReturnResult /\ UNCHANGED << eval_in, eval_out, llm, mail, quote, web, proc, migration >>
    \/ Crash /\ UNCHANGED << eval_in, eval_out, llm, mail, quote, web, proc, migration >>

Spec == Init /\ [][Next]_vars


(* ------------------ is_threshold_reached, on its own ------------------ *)

\* The arguments is_threshold_reached is applied to: a base price that is not
\* zero, a current price, and thresholds of either sign or None (a form value
\* of threshold_upper is stored as typed, and rows older than the sign
\* convention carry a positive threshold_lower).
EvalBasePrices == {50, 100}
EvalCurrentPrices == {0, 45, 50, 55, 90, 100, 110}
EvalThresholds == {Null, Some(-10), Some(0), Some(10)}

EvalInputs ==
    [ alert : [ base_price : EvalBasePrices,
                threshold_upper : EvalThresholds,
                threshold_lower : EvalThresholds ],
      current_price : EvalCurrentPrices ]

\* The batch at rest, for the specifications of the single functions.
BatchAtRest ==
    /\ alerts = [ a \in AlertIds |->
                    [ id |-> a, user_id |-> 1, stock_code |-> StockCode(a),
                      base_price |-> 110, threshold_upper |-> Some(10),
                      threshold_lower |-> Some(-10), status |-> "active",
                      triggered_at |-> Null ] ]
    /\ alert_logs = <<>>
    /\ pc = "idle"
    /\ run = 0
    /\ active_alerts = <<>>
    /\ loaded = alerts
    /\ idx = 1
    /\ result = NewResult(0)
    /\ calls = [a \in AlertIds |-> Null]
    /\ outbox = <<>>

batchVars == << alerts, alert_logs, pc, run, active_alerts, loaded, idx,
                result, calls, outbox >>

InitEval ==
    /\ BatchAtRest
    /\ eval_in \in EvalInputs
    /\ eval_out = Null
    /\ llm = Null
    /\ mail = Null
    /\ quote = Null
    /\ web = Null
    /\ proc = Null
    /\ migration = Null

\* One call of is_threshold_reached.
Evaluate ==
    /\ eval_out = Null
    /\ eval_out' = Some(is_threshold_reached(eval_in.alert, eval_in.current_price))
    /\ UNCHANGED << batchVars, eval_in, llm, mail, quote, web, proc, migration >>

NextEval == Evaluate

SpecEval == InitEval /\ [][NextEval]_vars

(* ----------------------- generate_alert_comment ----------------------- *)

MAX_RETRIES == 3
BASE_RETRY_DELAY == 1

\* What client.chat.completions.create may do on one attempt.
RetryableErrors == {"APIConnectionError", "RateLimitError", "APIStatusError"}
AttemptOutcomes ==
    {"ok", "AuthenticationError", "Exception"} \cup RetryableErrors

Abs(x) == IF x < 0 THEN -x ELSE x

\* get_fallback_comment(stock_name, change_rate, threshold_type); change_rate
\* is in hundredths of a percent, so the two-decimal formatting is exact.
get_fallback_comment(stock_name, change_rate, threshold_type) ==
    [ kind      |-> "fallback",
      name      |-> stock_name,
      rate      |-> Abs(change_rate),
      direction |-> IF threshold_type = "upper" THEN "up" ELSE "down" ]

NoComment == [kind |-> "None"]
TextComment == [kind |-> "text"]

\* The arguments of one call and the configuration it runs under.
LLMCalls ==
    [ api_key        : BOOLEAN,
      stock_name     : {"Samsung"},
      change_rate    : {-1234, 1000, 1567},
      threshold_type : {"upper", "lower"} ]

\* The state of a call that has not started.
LLMState(call) ==
    [ call    |-> call,
      pc      |-> "start",    \* "start", "loop", "returned"
      attempt |-> 0,          \* the loop variable
      history |-> <<>>,       \* the outcome of every API call made
      sleeps  |-> <<>>,       \* the argument of every time.sleep made
      clients |-> 0,          \* OpenAI clients built
      result  |-> Null ]      \* Some(the returned value) once returned

Return(l, value) == [l EXCEPT !.pc = "returned", !.result = Some(value)]

Fallback(l) ==
    get_fallback_comment(l.call.stock_name, l.call.change_rate,
                    l.call.threshold_type)

\* Faulty variant: the exponent is one too high.
RetryDelayDoubled(attempt) == BASE_RETRY_DELAY * (2 ^ (attempt + 1))

\* Line 210: delay = BASE_RETRY_DELAY * (2**attempt)
RetryDelay(attempt) == BASE_RETRY_DELAY * (2 ^ attempt)

\* Lines 185-192: the call succeeded.
OnSuccess(l) == Return(l, TextComment)

\* Lines 199-215: a retryable error; the last attempt gives the fallback, an
\* earlier one sleeps and goes round the loop, and a loop that runs out
\* (line 226) gives the fallback too.
OnRetryableError(l) ==
    IF l.attempt = MAX_RETRIES - 1
    THEN Return(l, Fallback(l))
    ELSE LET slept == [l EXCEPT !.sleeps = Append(@, RetryDelay(l.attempt)),
                                !.attempt = @ + 1]
         IN  IF slept.attempt >= MAX_RETRIES THEN Return(slept, Fallback(l))
             ELSE slept

\* Faulty variant: the authentication error is caught by the retryable
\* clause (AuthenticationError is a subclass of APIStatusError).
OnAuthenticationErrorRetried(l) == OnRetryableError(l)

\* Lines 194-197: an authentication error.
OnAuthenticationError(l) == Return(l, NoComment)

\* Faulty variant: an unexpected error returns None.
OnUnexpectedErrorNoComment(l) == Return(l, NoComment)

\* Lines 217-223: any other exception.
OnUnexpectedError(l) == Return(l, Fallback(l))

InitLLM ==
    /\ BatchAtRest
    /\ eval_in = Null
    /\ eval_out = Null
    /\ llm \in { LLMState(call) : call \in LLMCalls }
    /\ mail = Null
    /\ quote = Null
    /\ web = Null
    /\ proc = Null
    /\ migration = Null

\* Faulty variant: without an API key the fallback sentence is returned.
LLMStartFallback ==
    /\ llm.pc = "start"
    /\ llm' = IF ~llm.call.api_key THEN Return(llm, Fallback(llm))
              ELSE [llm EXCEPT !.pc = "loop", !.clients = @ + 1]
    /\ UNCHANGED << batchVars, eval_in, eval_out, mail, quote, web, proc, migration >>

\* Lines 154-168: without an API key the function returns None at once;
\* otherwise it formats the prompt, builds the client and enters the loop.
LLMStart ==
    /\ llm.pc = "start"
    /\ llm' = IF ~llm.call.api_key THEN Return(llm, NoComment)
              ELSE [llm EXCEPT !.pc = "loop", !.clients = @ + 1]
    /\ UNCHANGED << batchVars, eval_in, eval_out, mail, quote, web, proc, migration >>

\* Lines 170-223: one iteration of the retry loop.
LLMAttempt ==
    /\ llm.pc = "loop"
    /\ llm.attempt < MAX_RETRIES
    /\ \E outcome \in AttemptOutcomes :
         LET called == [llm EXCEPT !.history = Append(@, outcome)] IN
         llm' = CASE outcome = "ok" -> OnSuccess(called)
                  [] outcome = "AuthenticationError" ->
                         OnAuthenticationError(called)
                  [] outcome \in RetryableErrors -> OnRetryableError(called)
                  [] OTHER -> OnUnexpectedError(called)
    /\ UNCHANGED << batchVars, eval_in, eval_out, mail, quote, web, proc, migration >>

NextLLM ==
    \/ LLMStart
    \/ LLMAttempt

SpecLLM == InitLLM /\ [][NextLLM]_vars

(* -------------------------- send_alert_email -------------------------- *)

\* A value of app.config that may be missing: None, the empty string or set.
ConfigValues == {"None", "", "set"}

\* The arguments of one call and the configuration it runs under.  The
\* market summary is the one get_market_summary returned or the zeroed
\* defaults of process_alert, a dict of numbers either way.
MailCalls ==
    [ gmail_address  : ConfigValues,
      gmail_password : ConfigValues,
      threshold_type : {"upper", "lower"},
      market_summary : {"summary", ZeroedMarketSummary} ]

\* The state of a call that has not started.
MailState(call) ==
    [ call      |-> call,
      pc        |-> "start",  \* "start", "connect", "login", "sendmail",
                              \* "quit", "returned", "raised"
      connects  |-> 0,        \* smtplib.SMTP_SSL(...) calls
      logins    |-> 0,        \* server.login calls
      sendmails |-> 0,        \* server.sendmail calls
      delivered |-> 0,        \* server.sendmail calls that succeeded
      result    |-> Null ]    \* Some(the returned value) once returned

\* not gmail_address or not gmail_password (line 98)
Unconfigured(call) ==
    call.gmail_address \in {"None", ""} \/ call.gmail_password \in {"None", ""}

MailReturn(m, value) == [m EXCEPT !.pc = "returned", !.result = Some(value)]

\* Faulty variant: the exception of the transmission is not caught.
OnTransmissionErrorRaised(m) == [m EXCEPT !.pc = "raised"]

\* Lines 153-157: except Exception: log and return False.
OnTransmissionError(m) == MailReturn(m, FALSE)

InitMail ==
    /\ BatchAtRest
    /\ eval_in = Null
    /\ eval_out = Null
    /\ llm = Null
    /\ mail \in { MailState(call) : call \in MailCalls }
    /\ quote = Null
    /\ web = Null
    /\ proc = Null
    /\ migration = Null

\* Lines 95-142: without address or password the function returns False at
\* once; otherwise it formats subject and body and builds the message (the
\* arguments process_alert passes are numbers and strings the format
\* specifications accept).
MailStart ==
    /\ mail.pc = "start"
    /\ mail' = IF Unconfigured(mail.call) THEN MailReturn(mail, FALSE)
               ELSE [mail EXCEPT !.pc = "connect"]
    /\ UNCHANGED << batchVars, eval_in, eval_out, llm, quote, web, proc, migration >>

\* Line 144: smtplib.SMTP_SSL("smtp.gmail.com", 465) connects or raises.
MailConnect ==
    /\ mail.pc = "connect"
    /\ \E ok \in BOOLEAN :
         LET m == [mail EXCEPT !.connects = @ + 1] IN
         mail' = IF ok THEN [m EXCEPT !.pc = "login"]
                 ELSE OnTransmissionError(m)
    /\ UNCHANGED << batchVars, eval_in, eval_out, llm, quote, web, proc, migration >>

\* Line 145: server.login succeeds or raises.
MailLogin ==
    /\ mail.pc = "login"
    /\ \E ok \in BOOLEAN :
         LET m == [mail EXCEPT !.logins = @ + 1] IN
         mail' = IF ok THEN [m EXCEPT !.pc = "sendmail"]
                 ELSE OnTransmissionError(m)
    /\ UNCHANGED << batchVars, eval_in, eval_out, llm, quote, web, proc, migration >>

\* Line 146: server.sendmail succeeds or raises.
MailSendmail ==
    /\ mail.pc = "sendmail"
    /\ \E ok \in BOOLEAN :
         LET m == [mail EXCEPT !.sendmails = @ + 1] IN
         mail' = IF ok THEN [m EXCEPT !.pc = "quit", !.delivered = @ + 1]
                 ELSE OnTransmissionError(m)
    /\ UNCHANGED << batchVars, eval_in, eval_out, llm, quote, web, proc, migration >>

\* Lines 144-151: leaving the with block sends QUIT, which may raise inside
\* the try; otherwise the function returns True.
MailQuit ==
    /\ mail.pc = "quit"
    /\ \E ok \in BOOLEAN :
         mail' = IF ok THEN MailReturn(mail, TRUE)
                 ELSE OnTransmissionError(mail)
    /\ UNCHANGED << batchVars, eval_in, eval_out, llm, quote, web, proc, migration >>

NextMail ==
    \/ MailStart
    \/ MailConnect
    \/ MailLogin
    \/ MailSendmail
    \/ MailQuit

SpecMail == InitMail /\ [][NextMail]_vars

(* --------------------------- get_stock_price -------------------------- *)

\* The characters of a closePrice string: two digits, the thousands
\* separator and a character that is neither.
PriceChars == {"7", "0", ",", "x"}

RECURSIVE StringsUpTo(_)
StringsUpTo(n) ==
    IF n = 0 THEN { <<>> }
    ELSE StringsUpTo(n - 1)
         \cup { Append(str, c) :
                  str \in { t \in StringsUpTo(n - 1) : Len(t) = n - 1 },
                  c \in PriceChars }

\* The values of the closePrice field of the response object: missing, JSON
\* null, a JSON number, a JSON string, or a JSON array.
ClosePrices ==
    { [type |-> t, num |-> 0, str |-> <<>>] : t \in {"missing", "null", "list"} }
    \cup { [type |-> "number", num |-> n, str |-> <<>>] : n \in {0, 70700} }
    \cup { [type |-> "str", num |-> 0, str |-> str] :
             str \in StringsUpTo(MaxPriceLen) }

\* What the quote request may give: a network error, a status that is not
\* 2xx, a body that is not JSON, a JSON body that is not an object, or the
\* expected object.
QuoteResponses ==
    { [kind |-> k, closePrice |-> [type |-> "missing", num |-> 0, str |-> <<>>]] :
        k \in {"network_error", "http_error", "not_json", "json_array"} }
    \cup { [kind |-> "json_object", closePrice |-> c] : c \in ClosePrices }

\* close_price.replace(",", "") (line 213)
RemoveCommas(str) == SelectSeq(str, LAMBDA c : c # ",")

\* float(close_price) accepts the string (line 214).
IsDigits(str) == Len(str) > 0 /\ \A i \in 1..Len(str) : str[i] \in {"7", "0"}

RECURSIVE DigitsValue(_)
DigitsValue(str) ==
    IF str = <<>> THEN 0
    ELSE DigitsValue(SubSeq(str, 1, Len(str) - 1)) * 10
         + (IF str[Len(str)] = "7" THEN 7 ELSE 0)

\* The state of a call that has not started.
QuoteState(response) ==
    [ response |-> response,
      pc       |-> "start",   \* "start", "parse", "returned", "raised"
      raised   |-> "None",    \* the exception that left the function
      result   |-> Null ]     \* Some(Some(price)) or Some(Null) once returned

QuoteReturn(q, value) == [q EXCEPT !.pc = "returned", !.result = Some(value)]

QuoteRaise(q, exception) == [q EXCEPT !.pc = "raised", !.raised = exception]

\* Lines 209-221: data.get("closePrice") and the conversion.  data.get does
\* not exist on a body that is not an object (AttributeError), float() of a
\* string that is not a number raises ValueError, which line 226 catches, and
\* float() of a list raises TypeError; no except clause names AttributeError
\* or TypeError.
ParseClosePrice(q) ==
    LET close_price == q.response.closePrice IN
    IF q.response.kind = "json_array" THEN QuoteRaise(q, "AttributeError")
    ELSE IF close_price.type \in {"missing", "null"} THEN QuoteReturn(q, Null)
    ELSE IF close_price.type = "number"
    THEN QuoteReturn(q, Some(close_price.num))
    ELSE IF close_price.type = "str"
    THEN LET digits == RemoveCommas(close_price.str) IN
         IF IsDigits(digits) THEN QuoteReturn(q, Some(DigitsValue(digits)))
         ELSE QuoteReturn(q, Null)
    ELSE QuoteRaise(q, "TypeError")

InitQuote ==
    /\ BatchAtRest
    /\ eval_in = Null
    /\ eval_out = Null
    /\ llm = Null
    /\ mail = Null
    /\ quote \in { QuoteState(response) : response \in QuoteResponses }
    /\ web = Null
    /\ proc = Null
    /\ migration = Null

\* Lines 203-206 and 223-228: the request, the status check and the JSON
\* decoding; their exceptions are RequestExceptions or ValueErrors, which
\* the except clauses turn into None.
QuoteRequest ==
    /\ quote.pc = "start"
    /\ quote' = IF quote.response.kind \in {"network_error", "http_error", "not_json"}
                THEN QuoteReturn(quote, Null)
                ELSE [quote EXCEPT !.pc = "parse"]
    /\ UNCHANGED << batchVars, eval_in, eval_out, llm, mail, web, proc,
                    migration >>

QuoteParse ==
    /\ quote.pc = "parse"
    /\ quote' = ParseClosePrice(quote)
    /\ UNCHANGED << batchVars, eval_in, eval_out, llm, mail, web, proc,
                    migration >>

NextQuote ==
    \/ QuoteRequest
    \/ QuoteParse

SpecQuote == InitQuote /\ [][NextQuote]_vars

(* ------------------------- the settings routes ------------------------ *)

DEFAULT_THRESHOLD_UPPER == 10
DEFAULT_THRESHOLD_LOWER == -10

\* Table users: the uuid of the settings URL of each user; "zz" is a uuid
\* that no user has.
WebUuids == {"u1", "u2", "zz"}

\* User.query.filter_by(uuid=uuid).first(): the user's id or None.
UserByUuid(uuid) ==
    IF uuid = "u1" THEN Some(1) ELSE IF uuid = "u2" THEN Some(2) ELSE Null

\* The stock codes a form may carry: none, one that is not six digits, one of
\* the stock list, and six digits that are not in the list.
FormStockCodes == {"", "12", "005930", "999999"}

is_valid_stock_code_format(stock_code) == stock_code \in {"005930", "999999"}

\* validate_stock_code: the format, a stock list that could be loaded, and
\* the code in it.
validate_stock_code(stock_code, stock_list) ==
    /\ is_valid_stock_code_format(stock_code)
    /\ stock_list
    /\ stock_code = "005930"

\* The text of a threshold field of the form, stripped.
FormNumbers == {"", "abc", "10", "nan"}

\* float(text): a number, the float nan, or ValueError.
ParseFloat(text) ==
    CASE text = "10"  -> [kind |-> "number", value |-> 10]
      [] text = "-10" -> [kind |-> "number", value |-> -10]
      [] text = "0"   -> [kind |-> "number", value |-> 0]
      [] text = "nan" -> [kind |-> "nan", value |-> 0]
      [] OTHER        -> [kind |-> "ValueError", value |-> 0]

NoValue == [kind |-> "None", value |-> 0]

\* upper_value of lines 118-129 and 249-257.
UpperValue(text) == IF text = "" THEN NoValue ELSE ParseFloat(text)

\* lower_value of lines 131-142 and 259-267: a positive number is negated
\* (nan > 0 is false).
LowerValue(text) ==
    IF text = "" THEN NoValue
    ELSE LET parsed == ParseFloat(text) IN
         IF parsed.kind = "number" /\ parsed.value > 0
         THEN [parsed EXCEPT !.value = 0 - parsed.value]
         ELSE parsed

\* Lines 145-147 and 270-272: the defaults when both values are None.
WithDefaults(upper_value, lower_value) ==
    IF upper_value.kind = "None" /\ lower_value.kind = "None"
    THEN << [kind |-> "number", value |-> DEFAULT_THRESHOLD_UPPER],
            [kind |-> "number", value |-> DEFAULT_THRESHOLD_LOWER] >>
    ELSE << upper_value, lower_value >>

\* What a nullable Float column holds after the commit: None stays NULL, and
\* SQLite stores the float nan as NULL as well.
StoredFloat(value) ==
    IF value.kind = "number" THEN Some(value.value) ELSE Null

\* A response: an abort(404), abort(403), an unhandled exception (500), or a
\* redirect to the settings page (302) with a flashed message.
Response(status, flash) == [status |-> status, flash |-> flash]

\* The result of a route: the committed store and the response.
Handled(rows, logs, response) ==
    [ alerts |-> rows, alert_logs |-> logs, response |-> response ]

\* Faulty variant: the duplicate check is missing.
ExistingAlertIgnored(rows, user_id, stock_code) == FALSE

\* Lines 163-165: Alert.query.filter_by(user_id, stock_code, status="active")
ExistingAlert(rows, user_id, stock_code) ==
    \E a \in DOMAIN rows :
        /\ rows[a].user_id = user_id
        /\ rows[a].stock_code = stock_code
        /\ rows[a].status = "active"

\* The id the store gives a new alert row.
NewId(rows) ==
    IF DOMAIN rows = {} THEN 1
    ELSE (CHOOSE a \in DOMAIN rows : \A b \in DOMAIN rows : b <= a) + 1

\* Lines 195-203: the new Alert row.
NewAlert(id, user_id, stock_code, base_price, upper_value, lower_value) ==
    [ id              |-> id,
      user_id         |-> user_id,
      stock_code      |-> stock_code,
      base_price      |-> base_price,
      threshold_upper |-> StoredFloat(upper_value),
      threshold_lower |-> StoredFloat(lower_value),
      status          |-> "active",
      triggered_at    |-> Null ]

\* add_alert(uuid) with the form fields stock_code, threshold_upper and
\* threshold_lower; stock_list, price and commit_ok are what the stock list,
\* get_stock_price and db.session.commit() do.
add_alert(rows, logs, uuid, form, stock_list, price, commit_ok) ==
    LET user == UserByUuid(uuid)
        upper_value == UpperValue(form.threshold_upper)
        lower_value == LowerValue(form.threshold_lower)
        values == WithDefaults(upper_value, lower_value)
        alert == NewAlert(NewId(rows), user[1], form.stock_code, price.value,
                          values[1], values[2])
    IN  IF user = Null THEN Handled(rows, logs, Response(404, "None"))
        ELSE IF form.stock_code = ""
        THEN Handled(rows, logs, Response(302, "enter the stock code"))
        ELSE IF ~is_valid_stock_code_format(form.stock_code)
        THEN Handled(rows, logs, Response(302, "stock code must be 6 digits"))
        ELSE IF upper_value.kind = "ValueError"
        THEN Handled(rows, logs, Response(302, "upper must be a number"))
        ELSE IF lower_value.kind = "ValueError"
        THEN Handled(rows, logs, Response(302, "lower must be a number"))
        ELSE IF ~validate_stock_code(form.stock_code, stock_list)
        THEN Handled(rows, logs, Response(302, "invalid stock code"))
        ELSE IF ExistingAlert(rows, user[1], form.stock_code)
        THEN Handled(rows, logs, Response(302, "already registered"))
        ELSE IF price.kind = "None"
        THEN Handled(rows, logs, Response(302, "no price"))
        ELSE IF price.kind = "raise" \/ ~commit_ok
        THEN Handled(rows, logs, Response(500, "None"))
        ELSE Handled([ a \in DOMAIN rows \cup {alert.id} |->
                         IF a = alert.id THEN alert ELSE rows[a] ],
                     logs, Response(302, "added"))

\* Faulty variant: the ownership check is missing.
OwnedByAnyone(rows, alert_id, user_id) == TRUE

\* Lines 237, 314 and 360: alert.user_id != user.id
OwnedBy(rows, alert_id, user_id) == rows[alert_id].user_id = user_id

\* Lines 222-242, 299-319 and 345-365: the user and the alert are looked up
\* and the ownership is checked: the status to abort with, or 0.
Lookup(rows, uuid, alert_id) ==
    IF UserByUuid(uuid) = Null THEN 404
    ELSE IF alert_id \notin DOMAIN rows THEN 404
    ELSE IF ~OwnedBy(rows, alert_id, UserByUuid(uuid)[1]) THEN 403
    ELSE 0

\* Faulty variant: the update of the thresholds also resets the base price.
update_alert_rebasing(rows, logs, uuid, alert_id, form, commit_ok) ==
    LET upper_value == UpperValue(form.threshold_upper)
        lower_value == LowerValue(form.threshold_lower)
        values == WithDefaults(upper_value, lower_value)
    IN  IF Lookup(rows, uuid, alert_id) # 0
        THEN Handled(rows, logs, Response(Lookup(rows, uuid, alert_id), "None"))
        ELSE IF upper_value.kind = "ValueError"
        THEN Handled(rows, logs, Response(302, "upper must be a number"))
        ELSE IF lower_value.kind = "ValueError"
        THEN Handled(rows, logs, Response(302, "lower must be a number"))
        ELSE IF ~commit_ok THEN Handled(rows, logs, Response(500, "None"))
        ELSE Handled([rows EXCEPT
                        ![alert_id].threshold_upper = StoredFloat(values[1]),
                        ![alert_id].threshold_lower = StoredFloat(values[2]),
                        ![alert_id].base_price = 0],
                     logs, Response(302, "updated"))

\* update_alert(uuid, alert_id) with the form fields threshold_upper and
\* threshold_lower.
update_alert(rows, logs, uuid, alert_id, form, commit_ok) ==
    LET upper_value == UpperValue(form.threshold_upper)
        lower_value == LowerValue(form.threshold_lower)
        values == WithDefaults(upper_value, lower_value)
    IN  IF Lookup(rows, uuid, alert_id) # 0
        THEN Handled(rows, logs, Response(Lookup(rows, uuid, alert_id), "None"))
        ELSE IF upper_value.kind = "ValueError"
        THEN Handled(rows, logs, Response(302, "upper must be a number"))
        ELSE IF lower_value.kind = "ValueError"
        THEN Handled(rows, logs, Response(302, "lower must be a number"))
        ELSE IF ~commit_ok THEN Handled(rows, logs, Response(500, "None"))
        ELSE Handled([rows EXCEPT
                        ![alert_id].threshold_upper = StoredFloat(values[1]),
                        ![alert_id].threshold_lower = StoredFloat(values[2])],
                     logs, Response(302, "updated"))

\* The values of the form field status; a request without the field means
\* "active", and so does any value that is neither active nor inactive.
FormStatuses == {"active", "inactive", "paused"}

\* Faulty variant: the requested status is stored as it is.
toggle_alert_status_unchecked(rows, logs, uuid, alert_id, form, commit_ok) ==
    IF Lookup(rows, uuid, alert_id) # 0
    THEN Handled(rows, logs, Response(Lookup(rows, uuid, alert_id), "None"))
    ELSE IF ~commit_ok THEN Handled(rows, logs, Response(500, "None"))
    ELSE Handled([rows EXCEPT ![alert_id].status = form.status], logs,
                 Response(302, IF form.status = "active" THEN "activated"
                               ELSE "deactivated"))

\* toggle_alert_status(uuid, alert_id) with the form field status.
toggle_alert_status(rows, logs, uuid, alert_id, form, commit_ok) ==
    LET new_status == IF form.status \in {"active", "inactive"}
                      THEN form.status ELSE "active"
    IN  IF Lookup(rows, uuid, alert_id) # 0
        THEN Handled(rows, logs, Response(Lookup(rows, uuid, alert_id), "None"))
        ELSE IF ~commit_ok THEN Handled(rows, logs, Response(500, "None"))
        ELSE Handled([rows EXCEPT ![alert_id].status = new_status], logs,
                     Response(302, IF new_status = "active" THEN "activated"
                                   ELSE "deactivated"))

\* delete_alert(uuid, alert_id): the alert row goes, and with it its AlertLog
\* rows (the relationship cascades).
delete_alert(rows, logs, uuid, alert_id, commit_ok) ==
    IF Lookup(rows, uuid, alert_id) # 0
    THEN Handled(rows, logs, Response(Lookup(rows, uuid, alert_id), "None"))
    ELSE IF ~commit_ok THEN Handled(rows, logs, Response(500, "None"))
    ELSE Handled([ a \in DOMAIN rows \ {alert_id} |-> rows[a] ],
                 SelectSeq(logs, LAMBDA log : log.alert_id # alert_id),
                 Response(302, "deleted"))

\* A form with the fields a route does not read left empty.
Form(stock_code, threshold_upper, threshold_lower, status) ==
    [ stock_code      |-> stock_code,
      threshold_upper |-> threshold_upper,
      threshold_lower |-> threshold_lower,
      status          |-> status ]

\* The latest request, the store it met, whether the stock list could be
\* loaded for it, and its response.
Request(route, uuid, alert_id, form, stock_list, handled) ==
    [ route      |-> route,
      uuid       |-> uuid,
      alert_id   |-> alert_id,
      form       |-> form,
      stock_list |-> stock_list,
      before     |-> [ alerts |-> alerts, alert_logs |-> alert_logs ],
      response   |-> handled.response ]

\* The batch's own variables, which the routes do not touch.
controlVars == << pc, run, active_alerts, loaded, idx, result, calls, outbox >>

\* The store the routes start from: user 1 has one active alert, which has
\* triggered once (its AlertLog row carries the base price of that time).
InitWeb ==
    /\ alerts = [ a \in {1} |->
                    NewAlert(1, 1, "005930", 110,
                             [kind |-> "number", value |-> 10],
                             [kind |-> "number", value |-> -10]) ]
    /\ alert_logs = << [ alert_id |-> 1, user_id |-> 1, stock_code |-> "005930",
                         base_price |-> 99, current_price |-> 110,
                         change_rate |-> ChangeRate(99, 110),
                         threshold_type |-> "upper", email_sent |-> TRUE,
                         sent_at |-> 0 ] >>
    /\ pc = "idle"
    /\ run = 0
    /\ active_alerts = <<>>
    /\ loaded = alerts
    /\ idx = 1
    /\ result = NewResult(0)
    /\ calls = [a \in AlertIds |-> Null]
    /\ outbox = <<>>
    /\ eval_in = Null
    /\ eval_out = Null
    /\ llm = Null
    /\ mail = Null
    /\ quote = Null
    /\ web = Null
    /\ proc = Null
    /\ migration = Null

\* The alert ids of a request: those of the model's rows and one beyond.
RequestIds == AlertIds \cup {0}

\* The prices get_stock_price gives add_alert.
WebPriceOutcomes ==
    { p \in PriceOutcomes : p.kind = "price" => p.value = 110 }

\* The inputs a handler does not get to read have one value: Read gives S
\* when the handler reads the input and the one value otherwise.
Read(read, S, unread) == IF read THEN S ELSE {unread}

\* The request got as far as storing the thresholds of its form.
Stored(handled) == handled.response.flash \in {"added", "updated"}

\* A handler does nothing with a well-formed threshold but store it, so the
\* requests that store nothing carry empty or malformed threshold fields.
Unparsed(form) ==
    /\ form.threshold_upper \in {"", "abc"}
    /\ form.threshold_lower \in {"", "abc"}

\* POST /settings/<uuid>/alerts
AddAlert ==
    \E uuid \in WebUuids :
    \E stock_code \in Read(UserByUuid(uuid) # Null, FormStockCodes, "") :
    \E threshold_upper \in Read(is_valid_stock_code_format(stock_code), FormNumbers, "") :
    \E threshold_lower \in Read(/\ is_valid_stock_code_format(stock_code)
                                /\ UpperValue(threshold_upper).kind # "ValueError",
                                FormNumbers, "") :
    \E stock_list \in Read(/\ is_valid_stock_code_format(stock_code)
                           /\ UpperValue(threshold_upper).kind # "ValueError"
                           /\ LowerValue(threshold_lower).kind # "ValueError",
                           BOOLEAN, TRUE) :
    \E price \in Read(/\ UpperValue(threshold_upper).kind # "ValueError"
                      /\ LowerValue(threshold_lower).kind # "ValueError"
                      /\ validate_stock_code(stock_code, stock_list)
                      /\ ~ExistingAlert(alerts, UserByUuid(uuid)[1], stock_code),
                      WebPriceOutcomes, [kind |-> "None", value |-> 0]) :
    \E commit_ok \in Read(/\ UpperValue(threshold_upper).kind # "ValueError"
                          /\ LowerValue(threshold_lower).kind # "ValueError"
                          /\ validate_stock_code(stock_code, stock_list)
                          /\ ~ExistingAlert(alerts, UserByUuid(uuid)[1], stock_code)
                          /\ price.kind = "price",
                          BOOLEAN, TRUE) :
        LET form == Form(stock_code, threshold_upper, threshold_lower, "")
            handled == add_alert(alerts, alert_logs, uuid, form, stock_list,
                                 price, commit_ok)
        IN  /\ DOMAIN handled.alerts \subseteq AlertIds
            /\ Stored(handled) \/ Unparsed(form)
            /\ alerts' = handled.alerts
            /\ alert_logs' = handled.alert_logs
            /\ web' = Request("add_alert", uuid, 0, form, stock_list, handled)
            /\ UNCHANGED << controlVars, eval_in, eval_out, llm, mail, quote, proc, migration >>

\* POST /settings/<uuid>/alerts/<alert_id>/update
UpdateAlert ==
    \E uuid \in WebUuids, alert_id \in RequestIds :
    \E threshold_upper \in Read(Lookup(alerts, uuid, alert_id) = 0, FormNumbers, "") :
    \E threshold_lower \in Read(/\ Lookup(alerts, uuid, alert_id) = 0
                                /\ UpperValue(threshold_upper).kind # "ValueError",
                                FormNumbers, "") :
    \E commit_ok \in Read(/\ Lookup(alerts, uuid, alert_id) = 0
                          /\ UpperValue(threshold_upper).kind # "ValueError"
                          /\ LowerValue(threshold_lower).kind # "ValueError",
                          BOOLEAN, TRUE) :
        LET form == Form("", threshold_upper, threshold_lower, "")
            handled == update_alert(alerts, alert_logs, uuid, alert_id, form,
                                    commit_ok)
        IN  /\ Stored(handled) \/ Unparsed(form)
            /\ alerts' = handled.alerts
            /\ alert_logs' = handled.alert_logs
            /\ web' = Request("update_alert", uuid, alert_id, form, TRUE, handled)
            /\ UNCHANGED << controlVars, eval_in, eval_out, llm, mail, quote, proc, migration >>

\* POST /settings/<uuid>/alerts/<alert_id>/toggle
ToggleAlertStatus ==
    \E uuid \in WebUuids, alert_id \in RequestIds :
    \E status \in Read(Lookup(alerts, uuid, alert_id) = 0, FormStatuses, "active") :
    \E commit_ok \in Read(Lookup(alerts, uuid, alert_id) = 0, BOOLEAN, TRUE) :
        LET form == Form("", "", "", status)
            handled == toggle_alert_status(alerts, alert_logs, uuid, alert_id,
                                           form, commit_ok)
        IN  /\ alerts' = handled.alerts
            /\ alert_logs' = handled.alert_logs
            /\ web' = Request("toggle_alert_status", uuid, alert_id, form, TRUE, handled)
            /\ UNCHANGED << controlVars, eval_in, eval_out, llm, mail, quote, proc, migration >>

\* POST /settings/<uuid>/alerts/<alert_id>/delete
DeleteAlert ==
    \E uuid \in WebUuids, alert_id \in RequestIds :
    \E commit_ok \in Read(Lookup(alerts, uuid, alert_id) = 0, BOOLEAN, TRUE) :
        LET handled == delete_alert(alerts, alert_logs, uuid, alert_id, commit_ok)
        IN  /\ alerts' = handled.alerts
            /\ alert_logs' = handled.alert_logs
            /\ web' = Request("delete_alert", uuid, alert_id,
                              Form("", "", "", ""), TRUE, handled)
            /\ UNCHANGED << controlVars, eval_in, eval_out, llm, mail, quote, proc, migration >>

NextWeb ==
    \/ AddAlert
    \/ UpdateAlert
    \/ ToggleAlertStatus
    \/ DeleteAlert

SpecWeb == InitWeb /\ [][NextWeb]_vars

(* --------------------- process_alert, on its own ---------------------- *)

\* The alerts process_alert is applied to: a row with a base price that may
\* be 0 (the close price add_alert stored, or the batch rebased to).
ProcBasePrices == {0, 110}

ProcAlerts ==
    { [ id |-> 1, user_id |-> 1, stock_code |-> "005930",
        base_price |-> b, threshold_upper |-> t[1], threshold_lower |-> t[2],
        status |-> "active", triggered_at |-> Null ] :
      b \in ProcBasePrices, t \in ThresholdChoices }

\* One call: the alert and what the collaborators will answer.
ProcCalls ==
    [ alert   : ProcAlerts,
      price   : PriceOutcomes,
      market  : MarketOutcomes,
      comment : CommentOutcomes,
      sent    : BOOLEAN ]

\* The state of a call that has not been made: out is Some(outcome) afterwards.
ProcState(call) == [ call |-> call, out |-> Null ]

InitProc ==
    /\ BatchAtRest
    /\ eval_in = Null
    /\ eval_out = Null
    /\ llm = Null
    /\ mail = Null
    /\ quote = Null
    /\ web = Null
    /\ proc \in { ProcState(call) : call \in ProcCalls }
    /\ migration = Null

\* One call of process_alert, up to the commit.
ProcessAlert ==
    /\ proc.out = Null
    /\ proc' = [proc EXCEPT !.out =
                  Some(process_alert(proc.call.alert, proc.call.price,
                                     proc.call.market, proc.call.comment,
                                     proc.call.sent, 1))]
    /\ UNCHANGED << batchVars, eval_in, eval_out, llm, mail, quote, web,
                    migration >>

NextProc == ProcessAlert

SpecProc == InitProc /\ [][NextProc]_vars

(* ------------- the lower threshold and its migration script ----------- *)

\* The texts of the threshold_lower field that are explored here: those of
\* FormNumbers, a negative number and zero.
LowerTexts == FormNumbers \cup {"-10", "0"}
UpperTexts == {"", "10"}

\* Alert.query.filter(Alert.threshold_lower > 0).all()
MigrationTargets(rows) ==
    { a \in DOMAIN rows :
        rows[a].threshold_lower # Null /\ rows[a].threshold_lower[1] > 0 }

\* migrate(dry_run): the rows with a positive threshold_lower get it negated
\* and the session is committed; nothing is written when there is no such
\* row, in a dry run, or when the commit fails.
migrate(rows, dry_run, commit_ok) ==
    IF MigrationTargets(rows) = {} \/ dry_run \/ ~commit_ok THEN rows
    ELSE [ a \in DOMAIN rows |->
             IF a \in MigrationTargets(rows)
             THEN [rows[a] EXCEPT !.threshold_lower = Some(0 - @[1])]
             ELSE rows[a] ]

\* How an invocation of the script ended.
MigrationEnd(rows, dry_run, commit_ok) ==
    IF MigrationTargets(rows) = {} THEN "nothing to do"
    ELSE IF dry_run THEN "dry run"
    ELSE IF ~commit_ok THEN "raised"
    ELSE "migrated"

\* The store the script was written for: one alert of user 1 whose
\* threshold_lower was stored as typed, positive, by the routes of before the
\* sign convention, or is negative or NULL already.
InitMigration ==
    /\ alerts \in
         { [ a \in {1} |->
               [ id |-> 1, user_id |-> 1, stock_code |-> "005930",
                 base_price |-> 110, threshold_upper |-> Some(10),
                 threshold_lower |-> lower, status |-> "active",
                 triggered_at |-> Null ] ] :
           lower \in {Null, Some(-10), Some(10)} }
    /\ alert_logs = <<>>
    /\ pc = "idle"
    /\ run = 0
    /\ active_alerts = <<>>
    /\ loaded = alerts
    /\ idx = 1
    /\ result = NewResult(0)
    /\ calls = [a \in AlertIds |-> Null]
    /\ outbox = <<>>
    /\ eval_in = Null
    /\ eval_out = Null
    /\ llm = Null
    /\ mail = Null
    /\ quote = Null
    /\ web = Null
    /\ proc = Null
    /\ migration = [ runs |-> 0, migrated |-> FALSE, dry_run |-> FALSE,
                     end |-> "None" ]

\* python scripts/migrate_threshold_lower.py [--dry-run]
Migrate ==
    \E dry_run \in BOOLEAN, commit_ok \in BOOLEAN :
        /\ migration.runs < MaxMigrations
        /\ (dry_run \/ MigrationTargets(alerts) = {}) => commit_ok
        /\ alerts' = migrate(alerts, dry_run, commit_ok)
        /\ migration' =
              [ runs     |-> migration.runs + 1,
                migrated |-> \/ migration.migrated
                             \/ MigrationEnd(alerts, dry_run, commit_ok)
                                   \in {"migrated", "nothing to do"},
                dry_run  |-> dry_run,
                end      |-> MigrationEnd(alerts, dry_run, commit_ok) ]
        /\ UNCHANGED << alert_logs, controlVars, eval_in, eval_out, llm, mail,
                        quote, web, proc >>

\* A user's add_alert request with a stock code of the list, a price and a
\* commit that succeeds: the thresholds are what the request is about here.
AddWithThresholds ==
    \E uuid \in {"u1", "u2"}, threshold_upper \in UpperTexts,
       threshold_lower \in LowerTexts :
        LET handled == add_alert(alerts, alert_logs, uuid,
                                 Form("005930", threshold_upper,
                                      threshold_lower, ""),
                                 TRUE, [kind |-> "price", value |-> 110], TRUE)
        IN  /\ DOMAIN handled.alerts \subseteq AlertIds
            /\ alerts' = handled.alerts
            /\ UNCHANGED << alert_logs, controlVars, eval_in, eval_out, llm,
                            mail, quote, web, proc, migration >>

\* The owner's update_alert request, with a commit that succeeds.
UpdateThresholds ==
    \E uuid \in {"u1", "u2"}, alert_id \in DOMAIN alerts,
       threshold_upper \in UpperTexts, threshold_lower \in LowerTexts :
        LET handled == update_alert(alerts, alert_logs, uuid, alert_id,
                                    Form("", threshold_upper, threshold_lower, ""),
                                    TRUE)
        IN  /\ alerts' = handled.alerts
            /\ UNCHANGED << alert_logs, controlVars, eval_in, eval_out, llm,
                            mail, quote, web, proc, migration >>

NextMigration ==
    \/ Migrate
    \/ AddWithThresholds
    \/ UpdateThresholds

SpecMigration == InitMigration /\ [][NextMigration]_vars

(* ------------- the batch and the settings routes together ------------- *)

\* The web application and the batch are two processes on one database file.
\* The batch's session keeps the Alert objects of its status query: their
\* attributes are those of the time of the query until the session commits,
\* which expires them; the next read of an expired object loads the row again
\* and raises ObjectDeletedError when the row is gone.

\* The session has committed in this run: an earlier alert triggered.
Expired == \E b \in AlertIds : calls[b] # Null /\ calls[b][1].status = "triggered"

\* The prices explored here: none, one that crosses no threshold of a row
\* with base price 110 and one that crosses the upper threshold.
RacePriceOutcomes ==
    { p \in PriceOutcomes : p.kind = "price" => p.value \in {110, 121} } \
        { [kind |-> "raise", value |-> 0] }

\* The store when the two processes start: user 1 has two active alerts.
InitRace ==
    /\ BatchAtRest
    /\ eval_in = Null
    /\ eval_out = Null
    /\ llm = Null
    /\ mail = Null
    /\ quote = Null
    /\ web = Null
    /\ proc = Null
    /\ migration = Null

\* One iteration of the for loop of check_alerts, lines 230-261, while the web
\* application may have committed in between; the collaborators other than
\* the price fetch succeed and the process does not die.
\* An expired object whose row was deleted raises at its first read
\* (alert.stock_code, line 79), and again in the except clause's read of
\* alert.stock_name (line 253), so the exception leaves check_alerts.  An
\* object that is not expired is processed with the attributes it was loaded
\* with; the UPDATE of its base price then finds no row when the row was
\* deleted, the flush raises StaleDataError and the commit is rolled back
\* after the email was sent, which ends the run as any failed flush does.
RaceProcessNext ==
    /\ pc = "loop"
    /\ idx <= Len(active_alerts)
    /\ \E price \in RacePriceOutcomes :
         LET a == active_alerts[idx]
             gone == a \notin DOMAIN alerts
             alert == IF Expired /\ ~gone THEN alerts[a] ELSE loaded[a]
             out == IF Expired /\ gone
                    THEN Raised(alert, "ObjectDeletedError")
                    ELSE process_alert(alert, price, "summary", "text", TRUE, run)
             stale == gone /\ out.commits > 0
             store == IF gone THEN [ alerts |-> alerts, alert_logs |-> alert_logs ]
                      ELSE StoreAfter(alerts, alert_logs, out, TRUE, "None")
         IN  /\ (Expired /\ gone) => price.kind = "None"
             /\ Len(store.alert_logs) <= MaxLogs
             /\ outbox' = Sent(out.mails)
             /\ alerts' = store.alerts
             /\ alert_logs' = store.alert_logs
             /\ IF (Expired /\ gone) \/ stale
                THEN /\ calls' = [calls EXCEPT ![a] =
                                     Call(price, out,
                                          IF stale THEN "StaleDataError"
                                          ELSE "ObjectDeletedError")]
                     /\ pc' = "aborted"
                     /\ UNCHANGED << result, idx >>
                ELSE IF out.raised # "None"
                THEN /\ result' = CountError(result, alert, out.raised)
                     /\ calls' = [calls EXCEPT ![a] = Call(price, out, "None")]
                     /\ idx' = idx + 1
                     /\ UNCHANGED pc
                ELSE /\ result' = CountResult(result, alert, out)
                     /\ calls' = [calls EXCEPT ![a] = Call(price, out, "None")]
                     /\ idx' = idx + 1
                     /\ UNCHANGED pc
    /\ UNCHANGED << run, active_alerts, loaded >>

\* The batch's variables that a step of the batch leaves alone.
restVars == << eval_in, eval_out, llm, mail, quote, web, proc, migration >>

NextRace ==
    \/ LoadAlerts /\ UNCHANGED restVars
    \/ RaceProcessNext /\ UNCHANGED restVars
    \/ ReturnResult /\ UNCHANGED restVars
    \/ ToggleAlertStatus
    \/ DeleteAlert

SpecRace == InitRace /\ [][NextRace]_vars

(* ------------------------------ claims -------------------------------- *)

Range(seq) == { seq[i] : i \in 1..Len(seq) }

\* The alerts process_alert was called on in the current run.
Processed == { a \in AlertIds : calls[a] # Null }
CallOf(a) == calls[a][1]

\* process_alert returned (it did not raise) with the given status.
Returned(a, status) ==
    /\ a \in Processed
    /\ CallOf(a).raised = "None"
    /\ CallOf(a).status = status

\* The price was fetched and, against the base price the alert had when the
\* run started, a threshold is crossed.
Crossed(a) ==
    /\ a \in Processed
    /\ CallOf(a).price.kind = "price"
    /\ loaded[a].base_price # 0
    /\ is_threshold_reached(loaded[a], CallOf(a).price.value)[1]

NotCrossed(a) ==
    /\ a \in Processed
    /\ CallOf(a).price.kind = "price"
    /\ loaded[a].base_price # 0
    /\ ~is_threshold_reached(loaded[a], CallOf(a).price.value)[1]

\* The AlertLog rows written for alert a in the current run.
LogsOfRun(a) ==
    { i \in 1..Len(alert_logs) :
        alert_logs[i].alert_id = a /\ alert_logs[i].sent_at = run }

\* The error entries of the run's summary for alert a.
ErrorsOf(a) ==
    { i \in 1..Len(result.errors) : result.errors[i].alert_id = a }

\* C1 (rebase law): whenever process_alert ran to its end on an alert whose
\* threshold is crossed, the alert is reported triggered and its stored
\* base_price equals the price observed in that run, whether the email send
\* returned true or false.
C1_RebaseLaw ==
    \A a \in AlertIds :
        (Crossed(a) /\ CallOf(a).raised = "None") =>
            /\ CallOf(a).status = "triggered"
            /\ alerts[a].base_price = CallOf(a).price.value

\* Two alerts of one run triggered, one with the email sent and one with the
\* send failed, and both were rebased to a new price.
C1_Witness ==
    \E a, b \in AlertIds :
        /\ Returned(a, "triggered") /\ CallOf(a).email_sent = Some(TRUE)
        /\ Returned(b, "triggered") /\ CallOf(b).email_sent = Some(FALSE)
        /\ alerts[a].base_price = CallOf(a).price.value
        /\ alerts[b].base_price = CallOf(b).price.value
        /\ alerts[a].base_price # loaded[a].base_price
        /\ alerts[b].base_price # loaded[b].base_price

\* C2 (audit law): for every alert that triggered in the run exactly one
\* AlertLog row of this run exists for it; its base_price is the base price
\* the alert had before the run, its current_price and change_rate are the
\* observed price and the change computed from them, its threshold_type is
\* the kind that fired and its email_sent is the outcome of the email send.
C2_AuditLaw ==
    \A a \in AlertIds :
        Returned(a, "triggered") =>
            /\ Cardinality(LogsOfRun(a)) = 1
            /\ \A i \in LogsOfRun(a) :
                 LET log == alert_logs[i]
                     price == CallOf(a).price.value
                 IN  /\ log.base_price = loaded[a].base_price
                     /\ log.current_price = price
                     /\ log.change_rate.den = loaded[a].base_price
                     /\ log.change_rate.num =
                            (price - loaded[a].base_price) * 100
                     /\ log.threshold_type =
                            ( IF loaded[a].threshold_upper # Null
                                 /\ log.change_rate.num >=
                                      loaded[a].threshold_upper[1] * log.change_rate.den
                              THEN "upper" ELSE "lower" )
                     /\ Some(log.email_sent) = CallOf(a).email_sent
                     /\ log.user_id = loaded[a].user_id
                     /\ log.stock_code = loaded[a].stock_code

\* An alert triggered in the second run: its row of that run carries the base
\* price it had before that run, which is not the rebased one, and an earlier
\* row of the same alert exists.
C2_Witness ==
    \E a \in AlertIds :
        /\ run = 2
        /\ Returned(a, "triggered")
        /\ \E i \in LogsOfRun(a) :
             /\ alert_logs[i].base_price # alerts[a].base_price
             /\ alert_logs[i].threshold_type = "upper"
             /\ alert_logs[i].email_sent = FALSE
        /\ \E j \in 1..Len(alert_logs) :
             alert_logs[j].alert_id = a /\ alert_logs[j].sent_at = 1

\* The position of alert a in the loaded list.
Pos(a) == CHOOSE i \in 1..Len(active_alerts) : active_alerts[i] = a

\* Alert b got exactly the update of a run in which nothing failed: rebase
\* and one audit row if its threshold is crossed, no change otherwise.
UpdatedAsWithoutFailure(b) ==
    /\ b \in Processed
    /\ CallOf(b).price.kind = "None" =>
          /\ Returned(b, "skipped")
          /\ alerts[b] = loaded[b] /\ LogsOfRun(b) = {}
    /\ NotCrossed(b) =>
          /\ Returned(b, "not_triggered")
          /\ alerts[b] = loaded[b] /\ LogsOfRun(b) = {}
    /\ Crossed(b) =>
          /\ Returned(b, "triggered")
          /\ alerts[b].base_price = CallOf(b).price.value
          /\ Cardinality(LogsOfRun(b)) = 1

\* C3 (isolation): if processing one alert raises, the run is not aborted,
\* and at its end every other alert of the run whose own processing met no
\* failure was evaluated and got the update of a run without that failure.
C3_Isolation ==
    \A a \in AlertIds :
        (a \in Processed /\ CallOf(a).raised # "None") =>
            /\ pc # "aborted"
            /\ pc = "done" =>
                 \A b \in Range(active_alerts) \ {a} :
                    /\ b \in Processed
                    /\ CallOf(b).raised = "None" => UpdatedAsWithoutFailure(b)

\* C4 (non-crossing leaves the alert untouched): the price was fetched and no
\* threshold is crossed; then process_alert returned not_triggered with
\* email_sent None, the alert row is as it was, no AlertLog row of this run
\* exists for it, and no market summary, commentary or email call was made.
C4_NotCrossedUntouched ==
    \A a \in AlertIds :
        NotCrossed(a) =>
            /\ Returned(a, "not_triggered")
            /\ CallOf(a).email_sent = Null
            /\ CallOf(a).error = "None"
            /\ alerts[a] = loaded[a]
            /\ LogsOfRun(a) = {}
            /\ CallOf(a).market_calls = 0
            /\ CallOf(a).comment_calls = 0
            /\ CallOf(a).mail_calls = 0
            /\ (pc = "loop" /\ Pos(a) = idx - 1) => outbox = <<>>

\* An alert was evaluated at a price that differs from its base price without
\* crossing, while the other alert of the run triggered.
C4_Witness ==
    \E a, b \in AlertIds :
        /\ NotCrossed(a)
        /\ CallOf(a).price.value # loaded[a].base_price
        /\ Returned(a, "not_triggered")
        /\ Returned(b, "triggered")

\* C5 (price unavailable means skipped): get_stock_price returned None; then
\* process_alert returned skipped with the price-fetch error, the alert row is
\* as it was, no AlertLog row of this run exists for it, no collaborator was
\* called, the summary holds exactly one error entry for the alert, and the
\* loop went on past it.
C5_PriceUnavailableSkipped ==
    \A a \in AlertIds :
        (a \in Processed /\ CallOf(a).price.kind = "None") =>
            /\ Returned(a, "skipped")
            /\ CallOf(a).error = "price fetch failed"
            /\ CallOf(a).email_sent = Null
            /\ alerts[a] = loaded[a]
            /\ LogsOfRun(a) = {}
            /\ CallOf(a).market_calls = 0
            /\ CallOf(a).comment_calls = 0
            /\ CallOf(a).mail_calls = 0
            /\ Cardinality(ErrorsOf(a)) = 1
            /\ \A i \in ErrorsOf(a) :
                 /\ result.errors[i].stock_code = loaded[a].stock_code
                 /\ result.errors[i].error = "price fetch failed"
            /\ Pos(a) < idx

\* The first alert of a run was skipped and the run went on to the second
\* one, which triggered.
C5_Witness ==
    \E a, b \in AlertIds :
        /\ a \in Processed /\ CallOf(a).price.kind = "None"
        /\ Returned(a, "skipped")
        /\ Returned(b, "triggered")
        /\ Pos(a) < Pos(b)
        /\ result.checked = 2

\* The AlertLog rows written for alert a in earlier runs.
PriorLogs(a) ==
    { i \in 1..Len(alert_logs) :
        alert_logs[i].alert_id = a /\ alert_logs[i].sent_at < run }

LastPriorLog(a) ==
    alert_logs[CHOOSE i \in PriorLogs(a) : \A j \in PriorLogs(a) : j <= i]

\* C10 (re-arm after firing): an alert that triggered in an earlier run is
\* still active, carries the price observed then as its base price and is
\* loaded again by the later run; when that run's evaluation ran to its end,
\* observing the same price as the triggering run did not trigger it (upper
\* > 0 and lower < 0), and a price crossing a threshold relative to the new
\* base price triggered it again.
C10_ReArm ==
    \A a \in AlertIds :
        PriorLogs(a) # {} =>
            LET old == LastPriorLog(a).current_price
                up == alerts[a].threshold_upper
                lo == alerts[a].threshold_lower
            IN  /\ alerts[a].status = "active"
                /\ loaded[a].base_price = old
                /\ a \in Range(active_alerts)
                /\ (a \in Processed /\ CallOf(a).raised = "None"
                      /\ CallOf(a).price.kind = "price") =>
                     LET new == CallOf(a).price.value IN
                     /\ ( new = old /\ up # Null /\ lo # Null
                          /\ up[1] > 0 /\ lo[1] < 0 )
                            => CallOf(a).status = "not_triggered"
                     /\ ( \/ up # Null /\ (new - old) * 100 >= up[1] * old
                          \/ lo # Null /\ (new - old) * 100 <= lo[1] * old )
                            => /\ CallOf(a).status = "triggered"
                               /\ alerts[a].base_price = new

\* In the second run one alert that triggered in the first run triggered
\* again at a new price, and another one that triggered in the first run saw
\* the same price again and did not trigger.
C10_Witness ==
    \E a, b \in AlertIds :
        /\ run = 2
        /\ PriorLogs(a) # {} /\ PriorLogs(b) # {}
        /\ Returned(a, "triggered")
        /\ CallOf(a).price.value # LastPriorLog(a).current_price
        /\ Returned(b, "not_triggered")
        /\ CallOf(b).price.value = LastPriorLog(b).current_price
        /\ alerts[b].threshold_upper # Null /\ alerts[b].threshold_lower # Null

\* C6 (threshold evaluator equals its reference): with changePct =
\* (current - base) / base * 100, is_threshold_reached returns (true, upper)
\* if upper is set and changePct >= upper, else (true, lower) if lower is set
\* and changePct <= lower, else (false, None); equality counts as crossed and
\* upper wins when both hold.  The comparisons are stated on the prices:
\* changePct >= t  iff  current * 100 >= base * (100 + t), base > 0.
C6_EvaluatorReference ==
    eval_out # Null =>
        LET base == eval_in.alert.base_price
            current == eval_in.current_price
            upper == eval_in.alert.threshold_upper
            lower == eval_in.alert.threshold_lower
            up == upper # Null /\ current * 100 >= base * (100 + upper[1])
            down == lower # Null /\ current * 100 <= base * (100 + lower[1])
            reached == eval_out[1][1]
            kind == eval_out[1][2]
        IN  /\ reached <=> (up \/ down)
            /\ kind = "upper" <=> up
            /\ kind = "lower" <=> (down /\ ~up)
            /\ kind = "None" <=> ~reached

\* The change equals both thresholds at once (upper = lower = 10, +10 %):
\* both conditions hold with equality, and the result is upper.
C6_Witness ==
    /\ eval_out = Some(<<TRUE, "upper">>)
    /\ eval_in.alert.threshold_upper = Some(10)
    /\ eval_in.alert.threshold_lower = Some(10)
    /\ eval_in.alert.base_price = 100
    /\ eval_in.current_price = 110

RetryableFailures(history) ==
    { i \in 1..Len(history) : history[i] \in RetryableErrors }

\* C7 (retry bound): one call of generate_alert_comment makes at most 3 API
\* calls; it sleeps once after every retryable failure of attempt 1 or 2 and
\* at no other time, for exactly 1 after attempt 1 and exactly 2 after
\* attempt 2.
C7_RetryBound ==
    llm # Null =>
        /\ Len(llm.history) <= 3
        /\ Len(llm.sleeps) =
              Cardinality({ i \in RetryableFailures(llm.history) : i < 3 })
        /\ \A i \in 1..Len(llm.sleeps) :
              /\ llm.history[i] \in RetryableErrors
              /\ llm.sleeps[i] = i

\* Two rate-limit failures, then a success on the third attempt: the text is
\* returned after sleeps of 1 and 2.
C7_Witness ==
    /\ llm # Null
    /\ llm.history = <<"RateLimitError", "RateLimitError", "ok">>
    /\ llm.sleeps = <<1, 2>>
    /\ llm.result = Some(TextComment)

\* C8 (an authentication error is terminal): an attempt that fails with an
\* authentication error is the last one, no sleep follows it, and the call
\* returns None, not the fallback sentence; if it is the first attempt,
\* exactly one API call was made.
C8_AuthTerminal ==
    llm # Null =>
        \A i \in 1..Len(llm.history) :
            llm.history[i] = "AuthenticationError" =>
                /\ Len(llm.history) = i
                /\ Len(llm.sleeps) = i - 1
                /\ llm.pc = "returned"
                /\ llm.result = Some(NoComment)

\* The second attempt failed with an authentication error after one retry:
\* the call returned None after two API calls and one sleep.
C8_Witness ==
    /\ llm # Null
    /\ llm.history = <<"APIConnectionError", "AuthenticationError">>
    /\ llm.sleeps = <<1>>
    /\ llm.result = Some(NoComment)

ReturnedCalls == { a \in Processed : CallOf(a).raised = "None" }

\* The alerts of the run whose process_alert call raised.
RaisedCalls == { a \in Processed : CallOf(a).raised # "None" }

\* C11 (the run summary counts the outcomes): when check_alerts has returned,
\* total is the number of alerts that were active when the list was loaded,
\* checked the number of process_alert calls that returned, triggered the
\* number that returned triggered, email_sent and email_failed the numbers of
\* those whose send returned true and false, and errors holds exactly one
\* entry (alert id, stock code, message) per skipped alert and per alert whose
\* processing raised, and none for any other alert.
C11_SummaryCounts ==
    pc = "done" =>
        /\ result.total =
              Cardinality({ a \in AlertIds : loaded[a].status = "active" })
        /\ result.checked = Cardinality(ReturnedCalls)
        /\ result.triggered =
              Cardinality({ a \in AlertIds : Returned(a, "triggered") })
        /\ result.email_sent =
              Cardinality({ a \in AlertIds : /\ Returned(a, "triggered")
                                             /\ CallOf(a).email_sent = Some(TRUE) })
        /\ result.email_failed =
              Cardinality({ a \in AlertIds : /\ Returned(a, "triggered")
                                             /\ CallOf(a).email_sent = Some(FALSE) })
        /\ Len(result.errors) =
              Cardinality({ a \in AlertIds : Returned(a, "skipped") })
              + Cardinality(RaisedCalls)
        /\ \A a \in AlertIds :
              IF Returned(a, "skipped") \/ a \in RaisedCalls
              THEN /\ Cardinality(ErrorsOf(a)) = 1
                   /\ \A i \in ErrorsOf(a) :
                        /\ result.errors[i].stock_code = loaded[a].stock_code
                        /\ result.errors[i].error =
                              ( IF a \in RaisedCalls THEN CallOf(a).raised
                                ELSE "price fetch failed" )
              ELSE ErrorsOf(a) = {}

\* A run over two alerts returned: one was skipped and the other triggered
\* with a failed email send.
C11_Witness ==
    /\ pc = "done"
    /\ result.total = 2 /\ result.checked = 2 /\ result.triggered = 1
    /\ result.email_sent = 0 /\ result.email_failed = 1
    /\ Len(result.errors) = 1
    /\ \E a \in AlertIds : Returned(a, "skipped")

\* C12 (only active alerts are considered): an alert that was inactive when
\* the run loaded its list is not in the list and not counted in total;
\* process_alert is never called on it (no price fetch, no evaluation), no
\* email of the run names it, no AlertLog row of the run exists for it, and
\* its row is as it was.
C12_OnlyActive ==
    \A a \in AlertIds :
        (run > 0 /\ loaded[a].status = "inactive") =>
            /\ a \notin Range(active_alerts)
            /\ result.total = Cardinality(AlertIds \ {b \in AlertIds : loaded[b].status = "inactive"})
            /\ calls[a] = Null
            /\ \A i \in 1..Len(outbox) :
                  outbox[i].stock_code # loaded[a].stock_code
            /\ LogsOfRun(a) = {}
            /\ alerts[a] = loaded[a]

\* A run returned in which one alert was inactive and left alone while the
\* other, active one triggered at a price that also crosses the inactive
\* alert's threshold.
C12_Witness ==
    \E a, b \in AlertIds :
        /\ pc = "done"
        /\ loaded[a].status = "inactive" /\ calls[a] = Null
        /\ Returned(b, "triggered")
        /\ is_threshold_reached(loaded[a], CallOf(b).price.value)[1]
        /\ result.total = 1

\* C13 (a run always completes): once the list is loaded, no failure met
\* while processing an alert is raised out of check_alerts; the loop goes on
\* to its end and the summary is returned.
C13_RunCompletes ==
    /\ pc # "aborted"
    /\ \A a \in AlertIds :
          (pc = "loop" /\ a \in Processed /\ CallOf(a).raised # "None") =>
              Pos(a) < idx

\* The alerts whose processing raised an exception (the process went on).
FailedCalls == { a \in RaisedCalls : CallOf(a).raised # "killed" }

\* C19 (a failing alert is left unmodified and recorded): once the run is
\* over, an alert whose processing raised at any step, the commit included,
\* has the base price it had before the run and no AlertLog row of the run,
\* the errors list holds exactly one entry with its id and stock code, and it
\* is counted neither in checked nor in triggered.
C19_FailingAlertRecorded ==
    \A a \in AlertIds :
        (pc \in {"done", "aborted"} /\ a \in FailedCalls) =>
            /\ alerts[a].base_price = loaded[a].base_price
            /\ LogsOfRun(a) = {}
            /\ Cardinality(ErrorsOf(a)) = 1
            /\ \A i \in ErrorsOf(a) :
                  result.errors[i].stock_code = loaded[a].stock_code
            /\ result.checked = Cardinality(ReturnedCalls)
            /\ result.triggered =
                  Cardinality({ b \in AlertIds : Returned(b, "triggered") })

\* The AlertLog rows of alert a, in insertion order.
LogsOf(a) == { i \in 1..Len(alert_logs) : alert_logs[i].alert_id = a }

\* C20 (audit insert and rebase are one unit, committed per alert): in every
\* committed store state, the state left by a dead process included, the
\* AlertLog rows of an alert and its base price tell the same story: without
\* a row the alert has its first base price, with rows its base price is the
\* current_price of its last row, and every row's base_price is the
\* current_price of the row before it (the first base price for the first
\* row).  Alerts are committed in the order they are processed, and a process
\* that died lost at most the update of the alert then in progress.
C20_AtomicUnit ==
    /\ \A a \in AlertIds :
          /\ LogsOf(a) = {} => alerts[a].base_price \in InitBasePrices
          /\ \A i \in LogsOf(a) :
                LET before == { j \in LogsOf(a) : j < i }
                    after == { j \in LogsOf(a) : j > i }
                IN  /\ before = {} => alert_logs[i].base_price \in InitBasePrices
                    /\ \A j \in before :
                          (\A k \in before : k <= j) =>
                              alert_logs[i].base_price = alert_logs[j].current_price
                    /\ after = {} =>
                          alerts[a].base_price = alert_logs[i].current_price
    /\ \A a, b \in Processed :
          \A i \in LogsOfRun(a), j \in LogsOfRun(b) :
              Pos(a) < Pos(b) => i < j
    /\ \A a \in Processed :
          (Crossed(a) /\ CallOf(a).raised = "None") =>
              Cardinality(LogsOfRun(a)) = 1
    /\ \A a \in Processed :
          (Crossed(a) /\ CallOf(a).raised = "killed" /\ LogsOfRun(a) = {}) =>
              /\ pc = "crashed"
              /\ a = active_alerts[idx]

\* The process died in the second alert of a run after its email was sent and
\* before the commit: that alert has neither a row nor a new base price,
\* while the first alert of the run has both.
C20_Witness ==
    \E a, b \in AlertIds :
        /\ pc = "crashed"
        /\ Returned(a, "triggered") /\ Cardinality(LogsOfRun(a)) = 1
        /\ alerts[a].base_price # loaded[a].base_price
        /\ b \in Processed /\ CallOf(b).raised = "killed"
        /\ CallOf(b).mail_calls = 1
        /\ LogsOfRun(b) = {}
        /\ alerts[b] = loaded[b]

\* C14 (send_alert_email never raises and never retries): a call never ends
\* by raising; without a configured address or password it returns False
\* without contacting the mail server; when connecting, logging in or sending
\* fails it returns False; it returns True only after one successful
\* sendmail; and it connects, logs in and sends at most once.
C14_MailNeverRaises ==
    mail # Null =>
        /\ mail.pc # "raised"
        /\ mail.connects <= 1 /\ mail.logins <= 1 /\ mail.sendmails <= 1
        /\ Unconfigured(mail.call) =>
              /\ mail.connects = 0
              /\ mail.pc = "returned" => mail.result = Some(FALSE)
        /\ mail.pc = "returned" =>
              /\ mail.result \in {Some(TRUE), Some(FALSE)}
              /\ mail.delivered = 0 => mail.result = Some(FALSE)
              /\ mail.result = Some(TRUE) =>
                    /\ mail.sendmails = 1 /\ mail.delivered = 1
                    /\ mail.connects = 1 /\ mail.logins = 1
        /\ mail.pc \in {"start", "connect", "login", "sendmail", "quit"} =>
              mail.result = Null

\* A configured call connected and logged in, its sendmail raised, and it
\* returned False after that single attempt.
C14_Witness ==
    /\ mail # Null
    /\ ~Unconfigured(mail.call)
    /\ mail.connects = 1 /\ mail.logins = 1
    /\ mail.sendmails = 1 /\ mail.delivered = 0
    /\ mail.result = Some(FALSE)

\* C15 (get_stock_price never raises to its caller): whatever the quote
\* request gives, the call does not end by raising; it returns None for a
\* network error, a status that is not 2xx, a body that is not the expected
\* object, a missing closePrice and a closePrice that does not parse, and it
\* returns a number only for a closePrice that is a number or a string of
\* digits and thousands separators.
C15_PriceNeverRaises ==
    quote # Null =>
        /\ quote.pc # "raised"
        /\ quote.pc = "returned" =>
              LET close_price == quote.response.closePrice
                  numeric ==
                      /\ quote.response.kind = "json_object"
                      /\ \/ close_price.type = "number"
                         \/ /\ close_price.type = "str"
                            /\ \A i \in 1..Len(close_price.str) :
                                  close_price.str[i] \in {"7", "0", ","}
                            /\ \E i \in 1..Len(close_price.str) :
                                  close_price.str[i] \in {"7", "0"}
              IN  quote.result = Some(Null) <=> ~numeric

\* A request of add_alert by a known user for a stock code for which that
\* user had an active alert.
DuplicateAdd ==
    /\ web # Null
    /\ web.route = "add_alert"
    /\ UserByUuid(web.uuid) # Null
    /\ \E a \in DOMAIN web.before.alerts :
          /\ web.before.alerts[a].user_id = UserByUuid(web.uuid)[1]
          /\ web.before.alerts[a].stock_code = web.form.stock_code
          /\ web.before.alerts[a].status = "active"

\* The request left the alerts and alert_logs tables as it met them.
StoreUntouched ==
    /\ alerts = web.before.alerts
    /\ alert_logs = web.before.alert_logs

\* C16 as stated (duplicate registration is rejected): add_alert for a stock
\* code for which the same user already has an active alert creates no alert,
\* changes nothing in the store, and reports the 'already registered' error.
C16_DuplicateReported ==
    DuplicateAdd =>
        /\ StoreUntouched
        /\ web.response = Response(302, "already registered")

\* C16 amended: add_alert for a stock code for which the same user already
\* has an active alert creates no alert and changes nothing in the store; it
\* reports the 'already registered' error when both threshold fields are
\* empty or numbers and the stock list could be loaded, and otherwise the
\* error of the threshold field or of the stock code.
C16_DuplicateRejected ==
    DuplicateAdd =>
        /\ StoreUntouched
        /\ web.response.status = 302
        /\ web.response.flash =
              IF UpperValue(web.form.threshold_upper).kind = "ValueError"
              THEN "upper must be a number"
              ELSE IF LowerValue(web.form.threshold_lower).kind = "ValueError"
              THEN "lower must be a number"
              ELSE IF ~web.stock_list THEN "invalid stock code"
              ELSE "already registered"

\* A duplicate add was answered with 'already registered' while another user
\* holds an active alert for the same stock code.
C16_Witness ==
    /\ DuplicateAdd
    /\ web.response.flash = "already registered"
    /\ \E a, b \in DOMAIN alerts :
          /\ alerts[a].user_id # alerts[b].user_id
          /\ alerts[a].stock_code = alerts[b].stock_code
          /\ alerts[a].status = "active" /\ alerts[b].status = "active"

\* C17 (ownership check): update_alert, toggle_alert_status and delete_alert
\* respond 404 to an unknown uuid or an unknown alert id and 403 to the uuid
\* of a user who does not own the alert, and in all these cases the alert
\* rows and the AlertLog rows are what they were.
C17_OwnershipChecked ==
    (web # Null /\ web.route \in {"update_alert", "toggle_alert_status",
                                  "delete_alert"}) =>
        /\ ( UserByUuid(web.uuid) = Null
             \/ web.alert_id \notin DOMAIN web.before.alerts ) =>
              /\ web.response.status = 404
              /\ StoreUntouched
        /\ ( /\ UserByUuid(web.uuid) # Null
             /\ web.alert_id \in DOMAIN web.before.alerts
             /\ web.before.alerts[web.alert_id].user_id # UserByUuid(web.uuid)[1] ) =>
              /\ web.response.status = 403
              /\ StoreUntouched

\* Another user's request to delete an alert that has AlertLog rows was
\* answered with 403.
C17_Witness ==
    /\ web # Null
    /\ web.route = "delete_alert"
    /\ web.response.status = 403
    /\ web.alert_id \in DOMAIN alerts
    /\ \E i \in 1..Len(alert_logs) : alert_logs[i].alert_id = web.alert_id

\* C18 (at least one threshold is always set): the alert that add_alert
\* created or update_alert changed has threshold_upper or threshold_lower
\* non-null, and when both form fields were empty it carries the defaults
\* +10 and -10.
C18_ThresholdSet ==
    (web # Null /\ web.response.flash \in {"added", "updated"}) =>
        LET id == IF web.route = "add_alert" THEN NewId(web.before.alerts)
                  ELSE web.alert_id
        IN  /\ alerts[id].threshold_upper # Null \/ alerts[id].threshold_lower # Null
            /\ (web.form.threshold_upper = "" /\ web.form.threshold_lower = "") =>
                  /\ alerts[id].threshold_upper = Some(10)
                  /\ alerts[id].threshold_lower = Some(-10)

\* The call of process_alert got a price that crosses a threshold of the
\* alert (its base price is not 0).
ProcCrossed ==
    /\ proc.out # Null
    /\ proc.call.price.kind = "price"
    /\ proc.call.alert.base_price # 0
    /\ LET base == proc.call.alert.base_price
           current == proc.call.price.value
           upper == proc.call.alert.threshold_upper
           lower == proc.call.alert.threshold_lower
       IN  \/ upper # Null /\ current * 100 >= base * (100 + upper[1])
           \/ lower # Null /\ current * 100 <= base * (100 + lower[1])

\* C21 (collaborator failures never stop a triggered alert): once a threshold
\* is crossed, whatever get_market_summary and generate_alert_comment
\* returned, process_alert fetched the summary once, asked for the commentary
\* once and attempted exactly one email send; the email carries a commentary
\* that is not None (the fallback sentence when the generator returned None,
\* the generator's text otherwise) and the zeroed market fields when the
\* summary was None; one AlertLog row with the send's outcome and the rebase
\* to the observed price are handed to the one commit, and the call reports
\* triggered.
C21_CollaboratorsNeverStop ==
    ProcCrossed =>
        LET out == proc.out[1] IN
        /\ out.raised = "None"
        /\ out.status = "triggered"
        /\ out.market_calls = 1
        /\ out.comment_calls = 1
        /\ Len(out.mails) = 1
        /\ out.mails[1].llm_comment # "None"
        /\ out.mails[1].llm_comment =
              ( IF proc.call.comment = "None" THEN "fallback"
                ELSE proc.call.comment )
        /\ out.mails[1].market_summary =
              ( IF proc.call.market = "None" THEN ZeroedMarketSummary
                ELSE "summary" )
        /\ out.email_sent = Some(proc.call.sent)
        /\ Len(out.logs) = 1
        /\ out.logs[1].email_sent = proc.call.sent
        /\ out.logs[1].current_price = proc.call.price.value
        /\ out.base_price = proc.call.price.value
        /\ out.commits = 1

\* A fall crossed the lower threshold while the market summary and the
\* commentary were both unavailable and the send failed: the email went out
\* with the fallback sentence and zeroed market fields, and the row and the
\* rebase followed.
C21_Witness ==
    /\ ProcCrossed
    /\ proc.call.market = "None"
    /\ proc.call.comment = "None"
    /\ ~proc.call.sent
    /\ proc.out[1].status = "triggered"
    /\ proc.out[1].mails[1].llm_comment = "fallback"
    /\ proc.out[1].mails[1].market_summary = ZeroedMarketSummary
    /\ proc.out[1].logs[1].threshold_type = "lower"
    /\ proc.out[1].base_price = 99

\* C22 (a missing credential short-circuits): without an OPENAI_API_KEY
\* generate_alert_comment builds no client, makes no API call and does not
\* sleep, and what it returns is None, not the fallback sentence.
C22_NoKeyShortCircuits ==
    (llm # Null /\ ~llm.call.api_key) =>
        /\ llm.clients = 0
        /\ llm.history = <<>>
        /\ llm.sleeps = <<>>
        /\ llm.pc \in {"start", "returned"}
        /\ llm.pc = "returned" =>
              /\ llm.result = Some(NoComment)
              /\ llm.result # Some(Fallback(llm))

\* A call without a key has returned None.
C22_Witness ==
    /\ llm # Null
    /\ ~llm.call.api_key
    /\ llm.pc = "returned"
    /\ llm.result = Some(NoComment)
    /\ llm.attempt = 0

\* C23 (only the batch writes baselines and audit entries): update_alert
\* changes nothing but threshold_upper and threshold_lower of its alert, and
\* toggle_alert_status nothing but its status; every other alert row and every
\* AlertLog row is as the request met it.  After any request an alert that
\* existed before has the base price it had, and the AlertLog rows are the
\* rows that were there, unmodified and in their order (delete_alert removes
\* those of its alert with it).
C23_OnlyBatchWritesBaselines ==
    web # Null =>
        /\ web.route = "update_alert" =>
              /\ alert_logs = web.before.alert_logs
              /\ DOMAIN alerts = DOMAIN web.before.alerts
              /\ \A a \in DOMAIN alerts :
                    /\ a # web.alert_id => alerts[a] = web.before.alerts[a]
                    /\ alerts[a] =
                          [web.before.alerts[a] EXCEPT
                              !.threshold_upper = alerts[a].threshold_upper,
                              !.threshold_lower = alerts[a].threshold_lower]
        /\ web.route = "toggle_alert_status" =>
              /\ alert_logs = web.before.alert_logs
              /\ DOMAIN alerts = DOMAIN web.before.alerts
              /\ \A a \in DOMAIN alerts :
                    /\ a # web.alert_id => alerts[a] = web.before.alerts[a]
                    /\ alerts[a] =
                          [web.before.alerts[a] EXCEPT !.status = alerts[a].status]
        /\ \A a \in DOMAIN alerts \cap DOMAIN web.before.alerts :
              alerts[a].base_price = web.before.alerts[a].base_price
        /\ alert_logs \in
              { web.before.alert_logs,
                SelectSeq(web.before.alert_logs,
                          LAMBDA log : log.alert_id # web.alert_id) }

\* The owner changed the thresholds of an alert that has an AlertLog row: the
\* thresholds are new, the base price and the row are not.
C23_Witness ==
    /\ web # Null
    /\ web.route = "update_alert"
    /\ web.response.flash = "updated"
    /\ alerts[web.alert_id].threshold_lower #
          web.before.alerts[web.alert_id].threshold_lower
    /\ alerts[web.alert_id].base_price = 110
    /\ \E i \in 1..Len(alert_logs) : alert_logs[i].alert_id = web.alert_id

\* C24 (a zero baseline fails fast): when an alert whose base price is 0 is
\* processed, no market summary is fetched, no commentary asked for, no email
\* sent, no AlertLog row written and the alert not rebased; once its price is
\* fetched the call raises ZeroDivisionError, and when the loop moved on the
\* summary holds one error entry for the alert and it is not counted as
\* checked.  No AlertLog row carries a change rate with a zero denominator,
\* and no email is sent for an alert whose base price was 0.
C24_ZeroBaselineFailsFast ==
    /\ \A a \in Processed :
          loaded[a].base_price = 0 =>
              /\ CallOf(a).market_calls = 0
              /\ CallOf(a).comment_calls = 0
              /\ CallOf(a).mail_calls = 0
              /\ LogsOfRun(a) = {}
              /\ alerts[a] = loaded[a]
              /\ CallOf(a).status # "triggered"
              /\ CallOf(a).price.kind = "price" =>
                    /\ CallOf(a).raised = "ZeroDivisionError"
                    /\ Cardinality(ErrorsOf(a)) = 1
                    /\ \A i \in ErrorsOf(a) :
                          result.errors[i].error = "ZeroDivisionError"
                    /\ result.checked =
                          Cardinality({ b \in Processed : CallOf(b).raised = "None" })
                    /\ Pos(a) < idx
    /\ \A i \in 1..Len(alert_logs) :
          /\ alert_logs[i].change_rate.den # 0
          /\ alert_logs[i].base_price # 0
    /\ \A a \in Processed : CallOf(a).mail_calls > 0 => loaded[a].base_price # 0

\* An alert that was rebased to a price of 0 by an earlier run raised in this
\* run at a price above 0, the run went on and the other alert triggered.
C24_Witness ==
    \E a, b \in AlertIds :
        /\ a \in Processed /\ loaded[a].base_price = 0
        /\ CallOf(a).price.kind = "price" /\ CallOf(a).price.value > 0
        /\ CallOf(a).raised = "ZeroDivisionError"
        /\ Returned(b, "triggered")
        /\ Pos(a) < Pos(b)
        /\ pc = "done"

\* C25 (the lower threshold is stored as a negative number): once the migrate
\* script has run, every alert's threshold_lower is NULL or negative, whatever
\* add_alert and update_alert requests were made before and after it; a dry
\* run of the script changes nothing in the store, and neither does a run on
\* a store that was migrated before.
C25_LowerNegative ==
    /\ [](migration.migrated =>
            \A a \in DOMAIN alerts :
                \/ alerts[a].threshold_lower = Null
                \/ alerts[a].threshold_lower[1] < 0)
    /\ [][ migration'.runs = migration.runs + 1 =>
              /\ migration'.dry_run => alerts' = alerts
              /\ migration.migrated => alerts' = alerts ]_vars

\* C26 (one active alert per user and stock code): after any sequence of
\* add_alert, update_alert, toggle_alert_status and delete_alert requests no
\* user has two alerts with status active for one stock code.
C26_OneActivePerStock ==
    \A a, b \in DOMAIN alerts :
        ( /\ alerts[a].user_id = alerts[b].user_id
          /\ alerts[a].stock_code = alerts[b].stock_code
          /\ alerts[a].status = "active"
          /\ alerts[b].status = "active" ) => a = b

\* C27 (every sent email is accounted for): whenever send_alert_email
\* returned true for an alert in the run, the store holds an AlertLog row of
\* the run for the alert with email_sent true and the alert is rebased to the
\* observed price (so that the next run does not see the same crossing
\* again), also when the commit after the send failed or the process died
\* between the send and the commit.
C27_SentEmailAccounted ==
    \A a \in Processed :
        (CallOf(a).mail_calls = 1 /\ CallOf(a).email_sent = Some(TRUE)) =>
            /\ \E i \in LogsOfRun(a) : alert_logs[i].email_sent
            /\ alerts[a].base_price = CallOf(a).price.value

\* C28 (a run acts only on alerts that are still active): when the run
\* processes an alert that a web request has set to inactive or deleted since
\* the run loaded its list, it sends no email, writes no AlertLog row and
\* rebases no alert, and the run is not stopped.
C28_OnlyStillActive ==
    [][ ( /\ pc = "loop"
          /\ calls' # calls
          /\ \/ active_alerts[idx] \notin DOMAIN alerts
             \/ alerts[active_alerts[idx]].status # "active" ) =>
            /\ outbox' = <<>>
            /\ alert_logs' = alert_logs
            /\ alerts' = alerts
            /\ pc' # "aborted" ]_vars

\* C29 (the status is active or inactive, never triggered): in every state
\* of the store that the batch and the status requests of the web application
\* reach, every alert's status is active or inactive and its triggered_at is
\* NULL; a toggle request with any other status value stores active, and an
\* alert that triggered keeps the status it had.
C29_StatusActiveOrInactive ==
    /\ \A a \in DOMAIN alerts :
          /\ alerts[a].status \in {"active", "inactive"}
          /\ alerts[a].triggered_at = Null
    /\ (web # Null /\ web.route = "toggle_alert_status"
          /\ web.response.status = 302) =>
          /\ web.alert_id \in DOMAIN alerts
          /\ alerts[web.alert_id].status =
                ( IF web.form.status = "inactive" THEN "inactive" ELSE "active" )
    /\ \A a \in DOMAIN alerts :
          (calls[a] # Null /\ web = Null) => alerts[a].status = loaded[a].status

\* A toggle request asked for the status paused on an inactive alert that had
\* triggered before, and the alert is active.
C29_Witness ==
    /\ web # Null
    /\ web.route = "toggle_alert_status"
    /\ web.form.status = "paused"
    /\ web.response.status = 302
    /\ web.before.alerts[web.alert_id].status = "inactive"
    /\ alerts[web.alert_id].status = "active"
    /\ \E i \in 1..Len(alert_logs) : alert_logs[i].alert_id = web.alert_id

\* The alerts of the run that the loop has gone past.
Passed == { a \in Processed : Pos(a) < idx }

\* C30 (the run summary is conservative): at every point of the loop and at
\* return, email_sent + email_failed = triggered <= checked <= total, checked
\* plus the number of alerts whose processing raised is the number of alerts
\* the loop has gone past (total at return), and errors has one entry per
\* skipped alert and per alert whose processing raised.
C30_SummaryConservative ==
    LET raised == { a \in Passed : CallOf(a).raised # "None" }
        skipped == { a \in Passed : /\ CallOf(a).raised = "None"
                                     /\ CallOf(a).status = "skipped" }
    IN  /\ result.email_sent + result.email_failed = result.triggered
        /\ result.triggered <= result.checked
        /\ result.checked <= result.total
        /\ result.total = Len(active_alerts)
        /\ Cardinality(Passed) = idx - 1
        /\ result.checked + Cardinality(raised) = idx - 1
        /\ Len(result.errors) = Cardinality(skipped) + Cardinality(raised)
        /\ pc = "done" => idx - 1 = result.total

\* A run over two alerts returned: the processing of one had raised and the
\* other was skipped.
C30_Witness ==
    /\ pc = "done"
    /\ result.total = 2
    /\ result.checked = 1
    /\ Len(result.errors) = 2
    /\ \E a, b \in Passed :
          /\ CallOf(a).raised = "TypeError"
          /\ Returned(b, "skipped")

=============================================================================
